---- MODULE Spec2Model ----
(***************************************************************************)
(* A model of the primal value tape of CoDiPack: the statement recorder,   *)
(* the identifier manager (linear and reuse policy), the replay engine and *)
(* the preaccumulation helper.                                             *)
(*                                                                         *)
(* Real values are modelled by integers (exact arithmetic) and one value    *)
(* that is not finite.  A vector that std::vector value-initialises         *)
(* (primals, adjoints) is a size and a map holding its nonzero entries; an  *)
(* entry that is absent reads as 0.                                         *)
(***************************************************************************)
EXTENDS Integers, Sequences, FiniteSets, TLC

VARIABLES
  cfg,      \* compile time configuration of the build (policy and Config flags)
  tape,     \* the tape: index manager, storage layers, primal and adjoint vector
  vals,     \* the host program's active values: value and identifier
  helper,   \* the PreaccumulationHelper object
  host,     \* what the host program holds: a saved position, its script counter
  last,     \* the most recent call of the host program and what it observed
  err       \* "none", or the exception that ended the program

vars == <<cfg, tape, vals, helper, host, last, err>>

----------------------------------------------------------------------------
(* Program constants                                                       *)

MaxArgumentSize == 255

StatementInputTag == 255

ArgumentSizeRange == 256

ChunkSize == 2097152

----------------------------------------------------------------------------
(* Bounds of the model                                                     *)

\* number of active values of the host program
NumVars == 3

\* statements the host program records
MaxStmts == 2

\* largest coefficient of an expression
MaxCoef == 2

\* calls of the host program in one run of the recording specification
MaxCalls == 4

\* the small numbers of nonzero entries of a preaccumulated row: 1..SmallRows
SmallRows == 2

----------------------------------------------------------------------------
(* Vectors with value-initialised entries                                  *)

NoEntries == [k \in {} |-> 0]

Get(f, i) == IF i \in DOMAIN f THEN f[i] ELSE 0

Normalize(f) == [k \in {j \in DOMAIN f : f[j] # 0} |-> f[k]]

Put(f, i, v) ==
  IF v = 0
    THEN [k \in (DOMAIN f) \ {i} |-> f[k]]
    ELSE [k \in (DOMAIN f) \cup {i} |-> IF k = i THEN v ELSE f[k]]

\* the Real that is not finite (NaN): it absorbs every sum and product
NotANumber == -1000000

isTotalFinite(x) == x # NotANumber

Plus(a, b) == IF isTotalFinite(a) /\ isTotalFinite(b) THEN a + b ELSE NotANumber

Times(a, b) == IF isTotalFinite(a) /\ isTotalFinite(b) THEN a * b ELSE NotANumber

RECURSIVE SumSeq(_, _, _)
SumSeq(s, lo, hi) ==
  IF lo > hi THEN 0
  ELSE IF lo = hi THEN s[lo]
  ELSE LET mid == (lo + hi) \div 2
       IN  Plus(SumSeq(s, lo, mid), SumSeq(s, mid + 1, hi))

Sum(s) == SumSeq(s, 1, Len(s))

Indices(n) == [p \in 1..n |-> p]

\* the vector with the entries f[1], .., f[n], as a sequence
Vector(f) == f \o <<>>

\* value stored into a Config::ArgumentSize (uint8_t)
ToArgumentSize(n) == n % ArgumentSizeRange

----------------------------------------------------------------------------
(* Configuration                                                           *)

DefaultConfig(isLinear) ==
  [ linear                    |-> isLinear,
    AssignOptimization        |-> TRUE,
    CheckTapeActivity         |-> TRUE,
    CheckZeroIndex            |-> TRUE,
    IgnoreInvalidJacobies     |-> FALSE,
    SkipZeroAdjointEvaluation |-> TRUE,
    \* "Direct": the handle of a statement serves reverse, forward and primal
    \* calls; "Reverse": ReverseStatementEvaluator; "FunctionHandleFactory": the
    \* handle is the reverse function, there is no forward call
    StatementEvaluator        |-> "Direct" ]

----------------------------------------------------------------------------
(* Index manager                                                           *)

LinearAssignIndex(t, id) ==
  [ t |-> [t EXCEPT !.count = @ + 1], id |-> t.count + 1, generatedNewIndex |-> FALSE ]

ReuseFreeIndex(t, id) ==
  IF id # 0
    THEN [ t |-> [t EXCEPT !.freeList = Append(@, id)], id |-> 0 ]
    ELSE [ t |-> t, id |-> 0 ]

ReuseAssignIndex(t, id) ==
  IF id # 0 THEN [ t |-> t, id |-> id, generatedNewIndex |-> FALSE ]
  ELSE IF t.freeList # <<>>
    THEN [ t |-> [t EXCEPT !.freeList = SubSeq(@, 1, Len(@) - 1)],
           id |-> t.freeList[Len(t.freeList)], generatedNewIndex |-> FALSE ]
    ELSE [ t |-> [t EXCEPT !.count = @ + 1], id |-> t.count + 1,
           generatedNewIndex |-> TRUE ]

ReuseAssignUnusedIndex(t, id) ==
  LET f == ReuseFreeIndex(t, id)
  IN  [ t |-> [f.t EXCEPT !.count = @ + 1], id |-> f.t.count + 1,
        generatedNewIndex |-> TRUE ]

assignIndex(t, id) ==
  IF cfg.linear THEN LinearAssignIndex(t, id) ELSE ReuseAssignIndex(t, id)

assignUnusedIndex(t, id) ==
  IF cfg.linear THEN LinearAssignIndex(t, id) ELSE ReuseAssignUnusedIndex(t, id)

freeIndex(t, id) ==
  IF cfg.linear THEN [ t |-> t, id |-> 0 ] ELSE ReuseFreeIndex(t, id)

getLargestAssignedIndex(t) == t.count

----------------------------------------------------------------------------
(* Construction                                                            *)

resizePrimalVector(t, newSize) == [t EXCEPT !.primalSize = newSize]

checkPrimalSize(t, generatedNewIndex) ==
  IF cfg.linear
    THEN IF getLargestAssignedIndex(t) >= t.primalSize
           THEN resizePrimalVector(t, t.primalSize + ChunkSize)
           ELSE t
    ELSE IF generatedNewIndex
           THEN resizePrimalVector(t, getLargestAssignedIndex(t) + 1)
           ELSE t

resizeAdjointsVector(t) ==
  [t EXCEPT !.adjointSize = getLargestAssignedIndex(t) + 1]

\* checkAdjointSize with the comparison of the const accessor
checkAdjointSizeStrict(t, identifier) ==
  IF identifier > t.adjointSize THEN resizeAdjointsVector(t) ELSE t

checkAdjointSize(t, identifier) ==
  IF identifier >= t.adjointSize THEN resizeAdjointsVector(t) ELSE t

PrimalValueBaseTape ==
  checkPrimalSize(
    [ active      |-> TRUE,
      count       |-> MaxArgumentSize,
      freeList    |-> <<>>,
      stmts       |-> <<>>,
      rhsIds      |-> <<>>,
      passiveVals |-> <<>>,
      constVals   |-> <<>>,
      adjoints    |-> NoEntries,
      adjointSize |-> 1,
      primals     |-> NoEntries,
      primalSize  |-> 0,
      \* the allocated size of the four storage layers
      capacity    |-> [stmt |-> ChunkSize, rhs |-> ChunkSize,
                       pas |-> ChunkSize, con |-> ChunkSize] ], TRUE)

initIdentifier == 0

----------------------------------------------------------------------------
(* Loops.  FoldUp runs Body for k = lo, lo+1, .., hi and FoldDown for       *)
(* k = hi, hi-1, .., lo; the range is halved so that the evaluation depth   *)
(* stays logarithmic in the number of iterations; the test first = first     *)
(* has the first half evaluated before the second half starts.              *)

RECURSIVE FoldUp(_, _, _, _)
FoldUp(Body(_, _), acc, lo, hi) ==
  IF lo > hi THEN acc
  ELSE IF lo = hi THEN Body(acc, lo)
  ELSE LET mid == (lo + hi) \div 2
           first == FoldUp(Body, acc, lo, mid)
       IN  IF first = first THEN FoldUp(Body, first, mid + 1, hi) ELSE first

RECURSIVE FoldDown(_, _, _, _)
FoldDown(Body(_, _), acc, lo, hi) ==
  IF lo > hi THEN acc
  ELSE IF lo = hi THEN Body(acc, lo)
  ELSE LET mid == (lo + hi) \div 2
           first == FoldDown(Body, acc, mid + 1, hi)
       IN  IF first = first THEN FoldDown(Body, first, lo, mid) ELSE first

----------------------------------------------------------------------------
(* Expressions.  The right hand side of a statement is the expression       *)
(* c_1 * x_1 + .. + c_n * x_n: n constant leaves c_k and n active type       *)
(* leaves x_k, so MaxActiveArgs = MaxConstantArgs = n, and the Jacobian of   *)
(* leaf x_k is c_k.  A term is [c |-> c_k, v |-> the host value x_k].        *)
(* The right hand side of a copy assignment is the active value itself: the  *)
(* single term [v |-> x], one active type leaf with Jacobian 1 and no         *)
(* constant leaf.                                                            *)

NodeIdentifier(vs, term) == vs[term.v].id

NodeValue(vs, term) == vs[term.v].value

IsActiveValue(terms) == Len(terms) = 1 /\ "c" \notin DOMAIN terms[1]

\* the Jacobian of a leaf; a leaf that is the whole expression has Jacobian 1
Coefficient(term) == IF "c" \in DOMAIN term THEN term.c ELSE 1

\* the constant leaves of the expression, in the order of their evaluation
Constants(terms) ==
  IF IsActiveValue(terms) THEN <<>> ELSE [k \in 1..Len(terms) |-> terms[k].c]

RhsValue(vs, terms) ==
  IF IsActiveValue(terms) THEN NodeValue(vs, terms[1])
  ELSE Sum([k \in 1..Len(terms) |-> Times(terms[k].c, NodeValue(vs, terms[k]))])

ExprHandle(n) == [kind |-> "expr", size |-> n]

\* the handle of an expression that is an active value
InputHandle == [kind |-> "input", size |-> 1]

\* createHandle<Impl, Impl, Rhs>()
CreateHandle(terms) ==
  IF IsActiveValue(terms) THEN InputHandle ELSE ExprHandle(Len(terms))

jacobianExpressions(size) ==
  IF size < MaxArgumentSize
    THEN [kind |-> "jac", size |-> size]
    ELSE [kind |-> "outOfTable", size |-> size]

----------------------------------------------------------------------------
(* Statement recorder                                                      *)

pushStmtData(t, index, numberOfPassiveArguments, oldPrimalValue, evalHandle) ==
  IF cfg.linear
    THEN [t EXCEPT !.stmts = Append(@,
           [ lhs |-> 0, nPassive |-> ToArgumentSize(numberOfPassiveArguments),
             oldPrimal |-> 0, handle |-> evalHandle ])]
    ELSE [t EXCEPT !.stmts = Append(@,
           [ lhs |-> index, nPassive |-> ToArgumentSize(numberOfPassiveArguments),
             oldPrimal |-> oldPrimalValue, handle |-> evalHandle ])]

\* CountActiveArguments without the check of the identifier
CountActiveArgumentsUnchecked(vs, terms) == Len(terms)

CountActiveArguments(vs, terms) ==
  Len(SelectSeq(terms,
        LAMBDA term : ~cfg.CheckZeroIndex \/ 0 # NodeIdentifier(vs, term)))

PushIdentfierPassiveAndConstant(t, vs, terms) ==
  LET n == Len(terms)
      isPassive(k) == ~cfg.CheckZeroIndex \/ 0 = NodeIdentifier(vs, terms[k])
      passiveLeaves == SelectSeq(Indices(n), isPassive)
      \* curPassiveArgument when leaf k is reached
      curPassiveArgument(k) == Cardinality({j \in 1..(k - 1) : isPassive(j)})
      rhsIndex(k) == IF isPassive(k) THEN curPassiveArgument(k)
                     ELSE NodeIdentifier(vs, terms[k])
  IN  [ t |-> [t EXCEPT
                 !.rhsIds = @ \o [k \in 1..n |-> rhsIndex(k)],
                 !.passiveVals = @ \o [i \in 1..Len(passiveLeaves) |->
                                         NodeValue(vs, terms[passiveLeaves[i]])],
                 !.constVals = @ \o Constants(terms)],
        passiveArguments |-> Len(passiveLeaves) ]

\* StoreRecord reading the primal entry after it was overwritten
StoreRecordLatePrimal(t, vs, lhs, terms) ==
  LET p  == PushIdentfierPassiveAndConstant(t, vs, terms)
      a  == assignIndex(p.t, vs[lhs].id)
      t2 == checkPrimalSize(a.t, a.generatedNewIndex)
      t3 == pushStmtData(t2, a.id, p.passiveArguments, RhsValue(vs, terms),
                         CreateHandle(terms))
  IN  [ t |-> [t3 EXCEPT !.primals = Put(@, a.id, RhsValue(vs, terms))],
        id |-> a.id ]

\* StoreRecord assigning the identifier of lhs before the operands are pushed
StoreRecordAssignFirst(t, vs, lhs, terms) ==
  LET a  == assignIndex(t, vs[lhs].id)
      p  == PushIdentfierPassiveAndConstant(a.t, [vs EXCEPT ![lhs].id = a.id], terms)
      t2 == checkPrimalSize(p.t, a.generatedNewIndex)
      primalEntry == Get(t2.primals, a.id)
      t3 == pushStmtData(t2, a.id, p.passiveArguments, primalEntry,
                         CreateHandle(terms))
  IN  [ t |-> [t3 EXCEPT !.primals = Put(@, a.id, RhsValue(vs, terms))],
        id |-> a.id ]

StoreRecord(t, vs, lhs, terms) ==
  LET p  == PushIdentfierPassiveAndConstant(t, vs, terms)
      a  == assignIndex(p.t, vs[lhs].id)
      t2 == checkPrimalSize(a.t, a.generatedNewIndex)
      primalEntry == Get(t2.primals, a.id)
      t3 == pushStmtData(t2, a.id, p.passiveArguments, primalEntry,
                         CreateHandle(terms))
  IN  [ t |-> [t3 EXCEPT !.primals = Put(@, a.id, RhsValue(vs, terms))],
        id |-> a.id ]

NoReservation == [stmt |-> 0, rhs |-> 0, pas |-> 0, con |-> 0]

\* the arguments of the four reserveItems calls of store
StoreReservation(vs, terms) ==
  [ stmt |-> 1,
    rhs  |-> Len(terms),
    pas  |-> Len(terms) - CountActiveArguments(vs, terms),
    con  |-> Len(Constants(terms)) ]

store(t, vs, lhs, terms) ==
  LET recorded == (~cfg.CheckTapeActivity \/ t.active)
                    /\ 0 # CountActiveArguments(vs, terms)
      r == IF recorded THEN StoreRecord(t, vs, lhs, terms)
           ELSE freeIndex(t, vs[lhs].id)
  IN  [ t |-> r.t,
        vals |-> [vs EXCEPT ![lhs] = [value |-> RhsValue(vs, terms), id |-> r.id]],
        reserved |-> IF recorded THEN StoreReservation(vs, terms) ELSE NoReservation ]

\* IndexManager::copyIndex
copyIndex(t, lhs, rhs) == [ t |-> t, id |-> rhs ]

\* IndexManager::AssignNeedsStatement
AssignNeedsStatement == ~cfg.linear

\* store(lhs, rhs) taking the full statement store in every case
storeActiveAlwaysStatement(t, vs, lhs, rhs) == store(t, vs, lhs, <<[v |-> rhs]>>)

\* store(lhs, rhs) for an active value rhs
storeActive(t, vs, lhs, rhs) ==
  IF ~cfg.CheckTapeActivity \/ t.active
    THEN IF AssignNeedsStatement \/ ~cfg.AssignOptimization
           THEN store(t, vs, lhs, <<[v |-> rhs]>>)
           ELSE LET r == copyIndex(t, vs[lhs].id, vs[rhs].id)
                IN  [ t |-> r.t,
                      vals |-> [vs EXCEPT ![lhs] = [value |-> vs[rhs].value,
                                                    id |-> r.id]],
                      reserved |-> NoReservation ]
    ELSE LET r == freeIndex(t, vs[lhs].id)
         IN  [ t |-> r.t,
               vals |-> [vs EXCEPT ![lhs] = [value |-> vs[rhs].value, id |-> r.id]],
               reserved |-> NoReservation ]

storePassive(t, vs, lhs, rhs) ==
  LET r == freeIndex(t, vs[lhs].id)
  IN  [ t |-> r.t, vals |-> [vs EXCEPT ![lhs] = [value |-> rhs, id |-> r.id]] ]

internalRegisterInput(t, vs, v, unusedIndex) ==
  LET a  == IF unusedIndex THEN assignUnusedIndex(t, vs[v].id)
            ELSE assignIndex(t, vs[v].id)
      t2 == checkPrimalSize(a.t, a.generatedNewIndex)
      primalEntry == Get(t2.primals, a.id)
      t3 == IF cfg.linear
              THEN pushStmtData(t2, a.id, StatementInputTag, primalEntry, InputHandle)
              ELSE t2
  IN  [ t |-> [t3 EXCEPT !.primals = Put(@, a.id, vs[v].value)],
        vals |-> [vs EXCEPT ![v].id = a.id],
        \* the arguments of the calls of pushStmtData
        pushed |-> IF cfg.linear
                     THEN << [ index |-> a.id,
                               numberOfPassiveArguments |-> StatementInputTag,
                               oldPrimalValue |-> primalEntry ] >>
                     ELSE <<>>,
        oldValue |-> primalEntry ]

\* what a function returns: nothing (void) or one value
Nothing == <<>>

Returned(value) == <<value>>

\* the effects of internalRegisterInput with what the caller returns
Registered(r, ret) == [t |-> r.t, vals |-> r.vals, pushed |-> r.pushed, ret |-> ret]

\* registerInput taking the identifier with assignIndex
registerInputAssignIndex(t, vs, v) ==
  Registered(internalRegisterInput(t, vs, v, FALSE), Nothing)

registerInput(t, vs, v) ==
  Registered(internalRegisterInput(t, vs, v, TRUE), Nothing)

\* registerExternalFunctionOutput taking the identifier with assignIndex
registerExternalFunctionOutputAssignIndex(t, vs, v) ==
  LET result(r) == Registered(r, Returned(r.oldValue))
  IN  result(internalRegisterInput(t, vs, v, FALSE))

registerExternalFunctionOutput(t, vs, v) ==
  LET result(r) == Registered(r, Returned(r.oldValue))
  IN  result(internalRegisterInput(t, vs, v, TRUE))

\* the activity switch of the tape
setActive(t) == [t EXCEPT !.active = TRUE]

setPassive(t) == [t EXCEPT !.active = FALSE]

pushJacobiManual(t, jacobi, value, index) ==
  [t EXCEPT !.passiveVals = Append(@, jacobi), !.rhsIds = Append(@, index)]

storeManual(t, lhsValue, lhsIndex, size) ==
  LET a  == assignIndex(t, lhsIndex)
      primalEntry == Get(a.t.primals, a.id)
      t2 == pushStmtData(a.t, a.id, size, primalEntry, jacobianExpressions(size))
  IN  [ t |-> [t2 EXCEPT !.primals = Put(@, a.id, lhsValue)], id |-> a.id,
        \* primals[lhsIndex] is taken without checkPrimalSize
        outOfPrimals |-> a.id >= a.t.primalSize ]

\* destroyIdentifier leaving the identifier with the value
destroyIdentifierKeep(t, identifier) == [t |-> t, id |-> identifier]

destroyIdentifier(t, identifier) == freeIndex(t, identifier)

----------------------------------------------------------------------------
(* Positions                                                               *)

getPosition(t) ==
  [ stmt |-> Len(t.stmts), rhs |-> Len(t.rhsIds), pas |-> Len(t.passiveVals),
    con  |-> Len(t.constVals), idx |-> IF cfg.linear THEN t.count ELSE 0 ]

ZeroPosition ==
  [ stmt |-> 0, rhs |-> 0, pas |-> 0, con |-> 0,
    idx |-> IF cfg.linear THEN MaxArgumentSize ELSE 0 ]

internalResetPrimalValues(t, pos) ==
  IF cfg.linear THEN t
  ELSE LET restore(primals, k) == Put(primals, t.stmts[k].lhs, t.stmts[k].oldPrimal)
       IN  [t EXCEPT !.primals = FoldDown(restore, @, pos.stmt + 1, Len(t.stmts))]

BaseResetTo(t, pos) ==
  [t EXCEPT !.stmts = SubSeq(@, 1, pos.stmt),
            !.rhsIds = SubSeq(@, 1, pos.rhs),
            !.passiveVals = SubSeq(@, 1, pos.pas),
            !.constVals = SubSeq(@, 1, pos.con),
            !.count = IF cfg.linear THEN pos.idx ELSE @]

\* resetTo without the call of Base::resetTo
resetToPrimalsOnly(t, pos) == internalResetPrimalValues(t, pos)

resetTo(t, pos) == BaseResetTo(internalResetPrimalValues(t, pos), pos)

----------------------------------------------------------------------------
(* Replay engine.  A replay works on a record r: the adjoint (or tangent)   *)
(* vector adj, the primal vector prim the replay writes to, the cursors     *)
(* con, pas, rhs into the constant, passive value and rhs identifier layer  *)
(* (numbers of records before the cursor), the statements visited so far    *)
(* (visits), the rhs identifier records consumed by manual statements       *)
(* (operands) and the exception that ended the replay (err).                *)

StartReplay(t, primalData, pos) ==
  [ adj |-> t.adjoints, prim |-> primalData,
    con |-> pos.con, pas |-> pos.pas, rhs |-> pos.rhs,
    visits |-> <<>>, operands |-> <<>>, err |-> "none" ]

\* primalVector[curPos] = passiveValues[curPassivePos + curPos]
CopyPassiveValues(t, r, numberOfPassiveArguments) ==
  LET copy(prim, curPos) == Put(prim, curPos, t.passiveVals[r.pas + curPos + 1])
  IN  [r EXCEPT !.prim = FoldUp(copy, @, 0, numberOfPassiveArguments - 1)]

\* the Jacobian of active leaf k of the statement at the cursors of r
LeafJacobian(t, r, handle, k) ==
  IF handle.kind = "input" THEN 1 ELSE t.constVals[r.con + k]

MaxActiveArgs(handle) == handle.size

MaxConstantArgs(handle) == IF handle.kind = "expr" THEN handle.size ELSE 0

\* IncrementReversalLogic without the multiplication by the Jacobian
IncrementReversalLogicNoJacobian(t, r, handle, lhsAdjoint) ==
  LET handleJacobianOnActive(adj, k) ==
        LET identifier == t.rhsIds[r.rhs + k]
        IN  Put(adj, identifier, Plus(Get(adj, identifier), lhsAdjoint))
  IN  [r EXCEPT !.adj = FoldUp(handleJacobianOnActive, @, 1, MaxActiveArgs(handle))]

IncrementReversalLogic(t, r, handle, lhsAdjoint) ==
  LET handleJacobianOnActive(adj, k) ==
        LET identifier == t.rhsIds[r.rhs + k]
            jacobian   == LeafJacobian(t, r, handle, k)
        IN  IF ~cfg.IgnoreInvalidJacobies \/ isTotalFinite(jacobian)
              THEN Put(adj, identifier,
                       Plus(Get(adj, identifier), Times(jacobian, lhsAdjoint)))
              ELSE adj
  IN  [r EXCEPT !.adj = FoldUp(handleJacobianOnActive, @, 1, MaxActiveArgs(handle))]

statementEvaluateReverseFull(t, r, handle, lhsAdjoint, numberOfPassiveArguments) ==
  LET r1 == [r EXCEPT !.con = @ - MaxConstantArgs(handle),
                      !.pas = @ - numberOfPassiveArguments,
                      !.rhs = @ - MaxActiveArgs(handle)]
  IN  IF ~cfg.SkipZeroAdjointEvaluation \/ lhsAdjoint # 0
        THEN IncrementReversalLogic(t,
               CopyPassiveValues(t, r1, numberOfPassiveArguments), handle, lhsAdjoint)
        ELSE r1

\* evalJacobianReverse walking from the first operand to the last
evalJacobianReverseAscending(t, r, lhsAdjoint, endRhsIdentifiersPos) ==
  LET lhsZero == lhsAdjoint = 0
      n == r.rhs - endRhsIdentifiersPos
      update(adj, i) ==
        LET identifier == t.rhsIds[endRhsIdentifiersPos + i]
            jacobian   == t.passiveVals[r.pas - n + i]
        IN  Put(adj, identifier,
                Plus(Get(adj, identifier), Times(jacobian, lhsAdjoint)))
  IN  IF ~cfg.SkipZeroAdjointEvaluation \/ ~lhsZero
        THEN [r EXCEPT !.adj = FoldUp(update, @, 1, n),
                       !.pas = @ - n,
                       !.rhs = @ - n,
                       !.operands = @ \o [i \in 1..n |-> endRhsIdentifiersPos + i]]
        ELSE r

evalJacobianReverse(t, r, lhsAdjoint, endRhsIdentifiersPos) ==
  LET lhsZero == lhsAdjoint = 0
      n == r.rhs - endRhsIdentifiersPos
      \* iteration i = 1..n handles the records rhs - i and pas - i (counted from 0)
      update(adj, i) ==
        LET identifier == t.rhsIds[r.rhs - i + 1]
            jacobian   == t.passiveVals[r.pas - i + 1]
        IN  Put(adj, identifier,
                Plus(Get(adj, identifier), Times(jacobian, lhsAdjoint)))
  IN  IF ~cfg.SkipZeroAdjointEvaluation \/ ~lhsZero
        THEN [r EXCEPT !.adj = FoldUp(update, @, 1, n),
                       !.pas = @ - n,
                       !.rhs = @ - n,
                       !.operands = @ \o [i \in 1..n |-> r.rhs - i + 1]]
        ELSE r

\* statementEvaluateReverse of a manual statement leaving the cursors where
\* evalJacobianReverse left them
JacobianStatementEvaluateReverseNoAdvance(t, r, lhsAdjoint, numberOfPassiveArguments) ==
  evalJacobianReverse(t, r, lhsAdjoint, r.rhs - numberOfPassiveArguments)

JacobianStatementEvaluateReverse(t, r, lhsAdjoint, numberOfPassiveArguments) ==
  LET endPos == r.rhs - numberOfPassiveArguments
      r1 == evalJacobianReverse(t, r, lhsAdjoint, endPos)
  IN  IF cfg.SkipZeroAdjointEvaluation /\ lhsAdjoint = 0
        THEN [r1 EXCEPT !.pas = @ - numberOfPassiveArguments,
                        !.rhs = @ - numberOfPassiveArguments]
        ELSE r1

\* a call through a handle that was read past the end of jacobianExpressions
CallOutOfTable(r, outcome) ==
  IF outcome = "crash" THEN [r EXCEPT !.err = "undefined behaviour"] ELSE r

callReverse(t, r, stmt, lhsAdjoint, outcome) ==
  CASE stmt.handle.kind = "jac" ->
         JacobianStatementEvaluateReverse(t, r, lhsAdjoint, stmt.nPassive)
    [] stmt.handle.kind = "outOfTable" -> CallOutOfTable(r, outcome)
    [] OTHER ->
         statementEvaluateReverseFull(t, r, stmt.handle, lhsAdjoint, stmt.nPassive)

\* the identifier of the output of statement k under the linear policy: every
\* statement took the next identifier
LinearAdjointPos(pos, k) == pos.idx - (pos.stmt - k)

internalEvaluateReverseStack(t, r0, start, end, outcome) ==
  LET step(r, k) ==
        IF r.err # "none" THEN r
        ELSE LET stmt == t.stmts[k]
                 seen == [r EXCEPT !.visits = Append(@, k)]
             IN  IF cfg.linear
                   THEN IF stmt.nPassive # StatementInputTag
                          THEN LET lhs == LinearAdjointPos(start, k)
                               IN  callReverse(t,
                                     [seen EXCEPT !.adj = Put(@, lhs, 0)],
                                     stmt, Get(r.adj, lhs), outcome)
                          ELSE seen
                   ELSE callReverse(t,
                          [seen EXCEPT !.adj = Put(@, stmt.lhs, 0),
                                       !.prim = Put(@, stmt.lhs, stmt.oldPrimal)],
                          stmt, Get(r.adj, stmt.lhs), outcome)
  IN  FoldDown(step, r0, end.stmt + 1, start.stmt)

\* internalEvaluateReverse replaying on the primal vector of the tape in
\* every case
internalEvaluateReverseLive(t, copyPrimal, start, end, outcome) ==
  LET result(r) == [ t |-> [t EXCEPT !.adjoints = r.adj, !.primals = r.prim], r |-> r ]
  IN  result(internalEvaluateReverseStack(t, StartReplay(t, t.primals, start),
                                          start, end, outcome))

internalEvaluateReverse(t, copyPrimal, start, end, outcome) ==
  LET result(r) ==
        [ t |-> IF copyPrimal THEN [t EXCEPT !.adjoints = r.adj]
                ELSE [t EXCEPT !.adjoints = r.adj, !.primals = r.prim],
          r |-> r ]
  IN  result(internalEvaluateReverseStack(t, StartReplay(t, t.primals, start),
                                          start, end, outcome))

evaluate(t, start, end, outcome) ==
  internalEvaluateReverse(checkAdjointSize(t, getLargestAssignedIndex(t)),
                          ~cfg.linear, start, end, outcome)

\* the value of the expression of the statement at the cursors of r
StaticRhsValue(t, r, handle) ==
  IF handle.kind = "input" THEN Get(r.prim, t.rhsIds[r.rhs + 1])
  ELSE Sum([k \in 1..handle.size |->
              Times(t.constVals[r.con + k], Get(r.prim, t.rhsIds[r.rhs + k]))])

IncrementForwardLogic(t, r, handle) ==
  LET handleJacobianOnActive(lhsTangent, k) ==
        LET jacobian == LeafJacobian(t, r, handle, k)
        IN  IF ~cfg.IgnoreInvalidJacobies \/ isTotalFinite(jacobian)
              THEN Plus(lhsTangent, Times(jacobian, Get(r.adj, t.rhsIds[r.rhs + k])))
              ELSE lhsTangent
  IN  FoldUp(handleJacobianOnActive, 0, 1, MaxActiveArgs(handle))

\* AdvanceCursors moving the rhs identifier cursor by the active operands
\* only
AdvanceCursorsByActive(r, handle, numberOfPassiveArguments) ==
  [r EXCEPT !.con = @ + MaxConstantArgs(handle),
            !.pas = @ + numberOfPassiveArguments,
            !.rhs = @ + MaxActiveArgs(handle) - numberOfPassiveArguments]

AdvanceCursors(r, handle, numberOfPassiveArguments) ==
  [r EXCEPT !.con = @ + MaxConstantArgs(handle),
            !.pas = @ + numberOfPassiveArguments,
            !.rhs = @ + MaxActiveArgs(handle)]

\* the replay record after the call, the tangent of the output and the value
statementEvaluateForwardFull(t, r, handle, numberOfPassiveArguments) ==
  LET r1 == CopyPassiveValues(t, r, numberOfPassiveArguments)
  IN  [ r |-> AdvanceCursors(r1, handle, numberOfPassiveArguments),
        lhsTangent |-> IncrementForwardLogic(t, r1, handle),
        ret |-> StaticRhsValue(t, r1, handle) ]

statementEvaluatePrimalFull(t, r, handle, numberOfPassiveArguments) ==
  LET r1 == CopyPassiveValues(t, r, numberOfPassiveArguments)
  IN  [ r |-> AdvanceCursors(r1, handle, numberOfPassiveArguments),
        lhsTangent |-> 0,
        ret |-> StaticRhsValue(t, r1, handle) ]

\* an exception raised after the rhs identifier cursor was moved
ThrowAfterCursor(r, what) ==
  [ r |-> [r EXCEPT !.err = what, !.rhs = @ + 1], lhsTangent |-> 0, ret |-> 0 ]

Throw(r, what) == [ r |-> [r EXCEPT !.err = what], lhsTangent |-> 0, ret |-> 0 ]

callForward(t, r, stmt, outcome) ==
  IF cfg.StatementEvaluator = "Reverse"
    THEN Throw(r, "ReverseStatementEvaluator does not support forward evaluation calls.")
  ELSE CASE stmt.handle.kind = "jac" ->
              Throw(r, "Forward evaluation of jacobian statement not possible.")
         [] stmt.handle.kind = "outOfTable" ->
              [ r |-> CallOutOfTable(r, outcome), lhsTangent |-> 0, ret |-> 0 ]
         [] OTHER -> statementEvaluateForwardFull(t, r, stmt.handle, stmt.nPassive)

callPrimal(t, r, stmt, outcome) ==
  IF cfg.StatementEvaluator = "Reverse"
    THEN Throw(r, "ReverseStatementEvaluator does not support primal evaluation calls.")
  ELSE IF cfg.StatementEvaluator = "FunctionHandleFactory"
    THEN Throw(r, "Primal handles are not supported by this handle factory.")
  ELSE CASE stmt.handle.kind = "jac" ->
              Throw(r, "Primal evaluation of jacobian statement not possible.")
         [] stmt.handle.kind = "outOfTable" ->
              [ r |-> CallOutOfTable(r, outcome), lhsTangent |-> 0, ret |-> 0 ]
         [] OTHER -> statementEvaluatePrimalFull(t, r, stmt.handle, stmt.nPassive)

\* the loop shared by internalEvaluateForwardStack (tangents = TRUE) and
\* internalEvaluatePrimalStack (tangents = FALSE)
ForwardStack(t, r0, start, end, tangents, outcome) ==
  LET step(r, k) ==
        IF r.err # "none" THEN r
        ELSE LET stmt == t.stmts[k]
                 seen == [r EXCEPT !.visits = Append(@, k)]
                 lhs  == IF cfg.linear THEN LinearAdjointPos(start, k) ELSE stmt.lhs
                 \* the writes that follow the call c of the statement
                 assign(c) ==
                   IF c.r.err # "none" THEN c.r
                   ELSE IF tangents
                     THEN [c.r EXCEPT !.prim = Put(@, lhs, c.ret),
                                      !.adj = Put(@, lhs, c.lhsTangent)]
                     ELSE [c.r EXCEPT !.prim = Put(@, lhs, c.ret)]
             IN  IF cfg.linear /\ stmt.nPassive = StatementInputTag THEN seen
                 ELSE IF tangents THEN assign(callForward(t, seen, stmt, outcome))
                 ELSE assign(callPrimal(t, seen, stmt, outcome))
  IN  FoldUp(step, r0, start.stmt + 1, end.stmt)

internalEvaluateForwardStack(t, r0, start, end, outcome) ==
  ForwardStack(t, r0, start, end, TRUE, outcome)

internalEvaluatePrimalStack(t, r0, start, end, outcome) ==
  ForwardStack(t, r0, start, end, FALSE, outcome)

internalEvaluateForward(t, copyPrimal, start, end, outcome) ==
  LET result(r) ==
        [ t |-> IF copyPrimal THEN [t EXCEPT !.adjoints = r.adj]
                ELSE [t EXCEPT !.adjoints = r.adj, !.primals = r.prim],
          r |-> r ]
  IN  result(internalEvaluateForwardStack(t, StartReplay(t, t.primals, start),
                                          start, end, outcome))

evaluateForward(t, start, end, outcome) ==
  internalEvaluateForward(checkAdjointSize(t, getLargestAssignedIndex(t)),
                          ~cfg.linear, start, end, outcome)

internalEvaluatePrimal(t, start, end, outcome) ==
  LET result(r) == [ t |-> [t EXCEPT !.primals = r.prim], r |-> r ]
  IN  result(internalEvaluatePrimalStack(t, StartReplay(t, t.primals, start),
                                         start, end, outcome))

evaluatePrimal(t, start, end, outcome) ==
  internalEvaluatePrimal(t, start, end, outcome)

evaluateKeepState(t, start, end, outcome) ==
  LET \* the primal evaluation that follows the reverse evaluation rev
      forward(rev) ==
        LET both(pri) ==
              [ t |-> pri.t, r |-> [pri.r EXCEPT !.visits = rev.r.visits \o @] ]
        IN  IF ~cfg.linear /\ rev.r.err = "none"
              THEN both(internalEvaluatePrimal(rev.t, end, start, outcome))
              ELSE rev
  IN  forward(internalEvaluateReverse(
                checkAdjointSize(t, getLargestAssignedIndex(t)),
                FALSE, start, end, outcome))

evaluateForwardKeepState(t, start, end, outcome) ==
  LET t1 == checkAdjointSize(t, getLargestAssignedIndex(t))
      t2 == IF ~cfg.linear THEN internalResetPrimalValues(t1, end) ELSE t1
  IN  internalEvaluateForward(t2, FALSE, start, end, outcome)

gradient(t, identifier) == Get(t.adjoints, identifier)

setGradient(t, identifier, value) ==
  LET t1 == checkAdjointSize(t, identifier)
  IN  [t1 EXCEPT !.adjoints = Put(@, identifier, value)]

----------------------------------------------------------------------------
(* Parameters and swap                                                      *)

\* the options the constructor inserts
Options ==
  { "AdjointSize", "ConstantValuesSize", "LargestIdentifier", "PassiveValuesSize",
    "RhsIdentifiersSize", "PrimalSize", "StatementSize" }

\* std::vector::resize of a value-initialised vector: the entries from newSize
\* on are dropped
VectorResize(f, newSize) == [k \in {j \in DOMAIN f : j < newSize} |-> f[k]]

\* ChunkedData::resize(totalSize): chunks are allocated until they hold
\* totalSize records, none is released
ChunkedResize(capacity, totalSize) ==
  LET noOfChunks == (totalSize + ChunkSize - 1) \div ChunkSize
  IN  IF noOfChunks * ChunkSize > capacity THEN noOfChunks * ChunkSize ELSE capacity

getParameter(t, parameter) ==
  CASE parameter = "AdjointSize"        -> t.adjointSize
    [] parameter = "ConstantValuesSize" -> Len(t.constVals)
    [] parameter = "LargestIdentifier"  -> getLargestAssignedIndex(t)
    [] parameter = "PassiveValuesSize"  -> Len(t.passiveVals)
    [] parameter = "RhsIdentifiersSize" -> Len(t.rhsIds)
    [] parameter = "PrimalSize"         -> t.primalSize
    [] parameter = "StatementSize"      -> Len(t.stmts)

\* the cases of setParameter that resize a vector or a layer
ResizeParameter(t, parameter, value) ==
  CASE parameter = "AdjointSize" ->
         [t EXCEPT !.adjointSize = value, !.adjoints = VectorResize(@, value)]
    [] parameter = "ConstantValuesSize" ->
         [t EXCEPT !.capacity.con = ChunkedResize(@, value)]
    [] parameter = "PassiveValuesSize" ->
         [t EXCEPT !.capacity.pas = ChunkedResize(@, value)]
    [] parameter = "RhsIdentifiersSize" ->
         [t EXCEPT !.capacity.rhs = ChunkedResize(@, value)]
    [] parameter = "PrimalSize" ->
         [t EXCEPT !.primalSize = value, !.primals = VectorResize(@, value)]
    [] parameter = "StatementSize" ->
         [t EXCEPT !.capacity.stmt = ChunkedResize(@, value)]

\* setParameter that accepts LargestIdentifier
setParameterAssignIdentifier(t, parameter, value) ==
  [ err |-> "none",
    t   |-> IF parameter = "LargestIdentifier" THEN [t EXCEPT !.count = value]
            ELSE ResizeParameter(t, parameter, value) ]

\* setParameter raising the error of LargestIdentifier after the assignment
setParameterThrowLate(t, parameter, value) ==
  IF parameter = "LargestIdentifier"
    THEN [ err |-> "Tried to set a get only option.", t |-> [t EXCEPT !.count = value] ]
    ELSE [ err |-> "none", t |-> ResizeParameter(t, parameter, value) ]

setParameter(t, parameter, value) ==
  IF parameter = "LargestIdentifier"
    THEN [ err |-> "Tried to set a get only option.", t |-> t ]
    ELSE [ err |-> "none", t |-> ResizeParameter(t, parameter, value) ]

\* Base::swap: the storage layers are exchanged, and with them the index
\* manager nested in them (linear policy); the index manager of the reuse
\* policy is static and belongs to both tapes
BaseSwap(a, b) ==
  LET take(x, y) ==
        [x EXCEPT !.stmts = y.stmts, !.rhsIds = y.rhsIds,
                  !.passiveVals = y.passiveVals, !.constVals = y.constVals,
                  !.capacity = y.capacity,
                  !.count = IF cfg.linear THEN y.count ELSE @,
                  !.freeList = IF cfg.linear THEN y.freeList ELSE @]
  IN  [ a |-> take(a, b), b |-> take(b, a) ]

\* swap without the exchange of the primal vectors
swapAdjointsOnly(a, b) ==
  BaseSwap([a EXCEPT !.adjoints = b.adjoints, !.adjointSize = b.adjointSize],
           [b EXCEPT !.adjoints = a.adjoints, !.adjointSize = a.adjointSize])

swap(a, b) ==
  BaseSwap([a EXCEPT !.adjoints = b.adjoints, !.adjointSize = b.adjointSize,
                     !.primals = b.primals, !.primalSize = b.primalSize],
           [b EXCEPT !.adjoints = a.adjoints, !.adjointSize = a.adjointSize,
                     !.primals = a.primals, !.primalSize = a.primalSize])

----------------------------------------------------------------------------
(* Forward mode tape.  The identifier of a value is its gradient; fvs maps a *)
(* host value to [value, gradient].                                          *)

ForwardInitIdentifier == 0

\* ForwardEvaluation::setGradient(identifier, gradient) for the value v
ForwardSetGradient(fvs, v, g) == [fvs EXCEPT ![v].gradient = g]

\* LocalReverseLogic over the leaves of the expression, with seed 1
LocalReverseLogic(fvs, terms) ==
  LET handleJacobianOnActive(lhsGradient, k) ==
        LET jacobian == Times(Coefficient(terms[k]), 1)
        IN  IF ~cfg.IgnoreInvalidJacobies \/ isTotalFinite(jacobian)
              THEN Plus(lhsGradient, Times(fvs[terms[k].v].gradient, jacobian))
              ELSE lhsGradient
  IN  FoldUp(handleJacobianOnActive, ForwardInitIdentifier, 1, Len(terms))

\* store that resets the gradient of lhs before the operands are read
ForwardStoreLhsFirst(fvs, lhs, terms) ==
  LET cleared == [fvs EXCEPT ![lhs].gradient = ForwardInitIdentifier]
      value == Sum([k \in 1..Len(terms) |->
                      Times(Coefficient(terms[k]), fvs[terms[k].v].value)])
  IN  [fvs EXCEPT ![lhs] = [value |-> value,
                             gradient |-> LocalReverseLogic(cleared, terms)]]

\* ForwardEvaluation::store(lhs, rhs expression)
ForwardStore(fvs, lhs, terms) ==
  LET newGradient == LocalReverseLogic(fvs, terms)
      value == Sum([k \in 1..Len(terms) |->
                      Times(Coefficient(terms[k]), fvs[terms[k].v].value)])
  IN  [fvs EXCEPT ![lhs] = [value |-> value, gradient |-> newGradient]]

\* ForwardEvaluation::store(lhs, active value)
ForwardStoreActive(fvs, lhs, rhs) ==
  [fvs EXCEPT ![lhs] = [value |-> fvs[rhs].value, gradient |-> fvs[rhs].gradient]]

\* ForwardEvaluation::store(lhs, passive value)
ForwardStorePassive(fvs, lhs, rhs) ==
  [fvs EXCEPT ![lhs] = [value |-> rhs, gradient |-> 0]]

----------------------------------------------------------------------------
(* AdjointInterfaceImplBase.  An adjoint is a vector of vecDim components;  *)
(* the implementation for scalar adjoints is the one with vecDim = 1.  The  *)
(* adjoint vector maps an index to an adjoint.                              *)

GradientValue(vecDim) == [d \in 1..vecDim |-> 0]

\* jacobi * lhs and the += of two adjoints
Scaled(jacobi, adjoint) == [d \in DOMAIN adjoint |-> jacobi * adjoint[d]]

Added(a, b) == [d \in DOMAIN a |-> a[d] + b[d]]

AdjointInterfaceImplBase(adjointVector, vecDim) ==
  [ adjointVector |-> adjointVector, lhs |-> GradientValue(vecDim), vecDim |-> vecDim ]

getVectorSize(a) == a.vecDim

resetAdjoint(a, index, dim) == [a EXCEPT !.adjointVector[index][dim] = 0]

resetAdjointVec(a, index) ==
  [a EXCEPT !.adjointVector[index] = GradientValue(a.vecDim)]

getAdjoint(a, index, dim) == a.adjointVector[index][dim]

updateAdjoint(a, index, dim, adjoint) ==
  [a EXCEPT !.adjointVector[index][dim] = @ + adjoint]

\* setLhsAdjoint that also resets the adjoint
setLhsAdjointAndReset(a, index) ==
  [a EXCEPT !.lhs = a.adjointVector[index],
            !.adjointVector[index] = GradientValue(a.vecDim)]

setLhsAdjoint(a, index) == [a EXCEPT !.lhs = a.adjointVector[index]]

updateJacobiAdjoint(a, index, jacobi) ==
  [a EXCEPT !.adjointVector[index] = Added(@, Scaled(jacobi, a.lhs))]

----------------------------------------------------------------------------
(* AggregatedTypeVectorAccessWrapper for std::complex.  A complex value and *)
(* a complex identifier are [re, im]; the wrapper holds the accessor of the *)
(* underlying tape (innerInterface, an adjoint vector with vecDim           *)
(* components per entry) and the buffer lhs of vecDim complex values.       *)

Complex(re, im) == [re |-> re, im |-> im]

ComplexPlus(a, b) == Complex(a.re + b.re, a.im + b.im)

ComplexTimes(a, b) == Complex(a.re * b.re - a.im * b.im, a.re * b.im + a.im * b.re)

ComplexIsTotalZero(a) == a.re = 0 /\ a.im = 0

\* the accessor of the underlying tape: the adjoint interface with a primal
\* vector
VectorAccessInterface(adjointVector, primalVector, vecDim) ==
  [ adjointVector |-> adjointVector, lhs |-> GradientValue(vecDim),
    vecDim |-> vecDim, primalVector |-> primalVector ]

getPrimal(a, index) == a.primalVector[index]

setPrimal(a, index, primal) == [a EXCEPT !.primalVector[index] = primal]

AggregatedTypeVectorAccessWrapperBase(innerInterface) ==
  [ innerInterface |-> innerInterface,
    lhs |-> [curDim \in 1..getVectorSize(innerInterface) |-> Complex(0, 0)] ]

ComplexResetAdjoint(w, index, dim) ==
  [w EXCEPT !.innerInterface =
     resetAdjoint(resetAdjoint(@, index.re, dim), index.im, dim)]

ComplexResetAdjointVec(w, index) ==
  [w EXCEPT !.innerInterface = resetAdjointVec(resetAdjointVec(@, index.re), index.im)]

ComplexGetAdjoint(w, index, dim) ==
  Complex(getAdjoint(w.innerInterface, index.re, dim),
          getAdjoint(w.innerInterface, index.im, dim))

ComplexUpdateAdjoint(w, index, dim, adjoint) ==
  [w EXCEPT !.innerInterface =
     updateAdjoint(updateAdjoint(@, index.re, dim, adjoint.re),
                   index.im, dim, adjoint.im)]

ComplexSetPrimal(w, index, primal) ==
  [w EXCEPT !.innerInterface = setPrimal(setPrimal(@, index.re, primal.re),
                                         index.im, primal.im)]

ComplexGetPrimal(w, index) ==
  Complex(getPrimal(w.innerInterface, index.re), getPrimal(w.innerInterface, index.im))

isLhsZero(w) == \A curDim \in 1..Len(w.lhs) : ComplexIsTotalZero(w.lhs[curDim])

WrapperGetAdjointVec(w, index) ==
  [curDim \in 1..Len(w.lhs) |-> ComplexGetAdjoint(w, index, curDim)]

WrapperUpdateAdjointVec(w, index, vec) ==
  LET update(acc, curDim) == ComplexUpdateAdjoint(acc, index, curDim, vec[curDim])
  IN  FoldUp(update, w, 1, Len(w.lhs))

WrapperSetLhsAdjoint(w, index) ==
  ComplexResetAdjointVec([w EXCEPT !.lhs = Vector(WrapperGetAdjointVec(w, index))],
                         index)

updateAdjointWithLhs(w, index, jacobi) ==
  LET step(acc, curDim) ==
        ComplexUpdateAdjoint(acc, index, curDim, ComplexTimes(jacobi, acc.lhs[curDim]))
  IN  FoldUp(step, w, 1, Len(w.lhs))

\* setLhsTangent that keeps the buffer
setLhsTangentKeepBuffer(w, index) == WrapperUpdateAdjointVec(w, index, w.lhs)

setLhsTangent(w, index) ==
  [WrapperUpdateAdjointVec(w, index, w.lhs) EXCEPT
     !.lhs = Vector([curDim \in 1..Len(w.lhs) |-> Complex(0, 0)])]

updateTangentWithLhs(w, index, jacobi) ==
  LET step(acc, curDim) ==
        [acc EXCEPT !.lhs[curDim] =
           ComplexPlus(@, ComplexTimes(jacobi, ComplexGetAdjoint(acc, index, curDim)))]
  IN  FoldUp(step, w, 1, Len(w.lhs))

----------------------------------------------------------------------------
(* Jacobian computation.  The Jacobian of the helper is m, n, the rows      *)
(* (data[i][j]) and the per row counter of nonzero entries.                 *)

EmptyJacobian == [ m |-> 0, n |-> 0, data |-> <<>>, nonZerosRow |-> <<>> ]

JacobianResize(jac, m, n) ==
  [ m |-> m, n |-> n,
    data |-> Vector([i \in 1..m |-> Vector([j \in 1..n |->
               IF i <= jac.m /\ j <= jac.n THEN jac.data[i][j] ELSE 0])]),
    nonZerosRow |->
      Vector([i \in 1..m |-> IF i <= jac.m THEN jac.nonZerosRow[i] ELSE 0]) ]

CountNonZeros(row) == Len(SelectSeq(row, LAMBDA x : x # 0))

\* one reverse sweep per output: seed the output, evaluate, read and clear the
\* adjoints of the inputs
computeJacobian(t, jac, start, end, inputData, outputData, outcome) ==
  LET n == Len(inputData)
      sweep(acc, i) ==
        IF acc.err # "none" THEN acc
        ELSE LET \* reading row i out of the adjoints the evaluation ev left
                 collect(ev) ==
                   LET row == Vector([j \in 1..n |->
                                IF \E q \in 1..(j - 1) : inputData[q] = inputData[j]
                                  THEN 0 ELSE gradient(ev.t, inputData[j])])
                       read == [k \in (DOMAIN ev.t.adjoints)
                                         \ {inputData[j] : j \in 1..n}
                                  |-> ev.t.adjoints[k]]
                   IN  [ t   |-> [ev.t EXCEPT !.adjoints = read],
                         jac |-> [acc.jac EXCEPT
                                    !.data[i] = row,
                                    !.nonZerosRow[i] = @ + CountNonZeros(row)],
                         err |-> ev.r.err ]
             IN  collect(evaluateKeepState(setGradient(acc.t, outputData[i], 1),
                                           end, start, outcome))
  IN  FoldUp(sweep, [t |-> t, jac |-> jac, err |-> "none"], 1, Len(outputData))

----------------------------------------------------------------------------
(* PreaccumulationHelper                                                   *)

PreaccumulationHelper ==
  [ inputData |-> <<>>, outputData |-> <<>>, outputValues |-> <<>>,
    startPos |-> [stmt |-> 0, rhs |-> 0, pas |-> 0, con |-> 0, idx |-> 0],
    storedAdjoints |-> <<>>, jacobie |-> EmptyJacobian ]

addInputLogic(h, vs, input) ==
  IF 0 # vs[input].id THEN [h EXCEPT !.inputData = Append(@, vs[input].id)] ELSE h

addInputRecursive(h, vs, inputs) ==
  LET one(hh, k) == addInputLogic(hh, vs, inputs[k])
  IN  FoldUp(one, h, 1, Len(inputs))

\* addOutputLogic without the test of the identifier
addOutputLogicUnchecked(h, vs, output) ==
  [h EXCEPT !.outputData = Append(@, vs[output].id),
            !.outputValues = Append(@, output)]

addOutputLogic(h, vs, output) ==
  IF 0 # vs[output].id
    THEN [h EXCEPT !.outputData = Append(@, vs[output].id),
                   !.outputValues = Append(@, output)]
    ELSE h

addOutputRecursive(h, vs, outputs) ==
  LET one(hh, k) == addOutputLogic(hh, vs, outputs[k])
  IN  FoldUp(one, h, 1, Len(outputs))

\* addInput without the test of the tape
addInputAnyTape(t, h, vs, inputs) == addInputRecursive(h, vs, inputs)

addInput(t, h, vs, inputs) ==
  IF t.active THEN addInputRecursive(h, vs, inputs) ELSE h

\* start without clearing the lists of the previous cycle
startKeepLists(t, h, vs, inputs) ==
  IF t.active
    THEN addInputRecursive([h EXCEPT !.startPos = getPosition(t)], vs, inputs)
    ELSE h

start(t, h, vs, inputs) ==
  IF t.active
    THEN addInputRecursive(
           [h EXCEPT !.inputData = <<>>, !.outputData = <<>>, !.outputValues = <<>>,
                     !.startPos = getPosition(t)], vs, inputs)
    ELSE h

addOutput(t, h, vs, outputs) ==
  IF t.active THEN addOutputRecursive(h, vs, outputs) ELSE h

storeInputAdjoints(t, h) ==
  LET n == Len(h.inputData)
      one(acc, i) ==
        LET index == h.inputData[i]
            t1 == checkAdjointSize(acc.t, index)
        IN  [ t |-> [t1 EXCEPT !.adjoints = Put(@, index, 0)],
              stored |-> [acc.stored EXCEPT ![i] = gradient(t1, index)] ]
      grown == IF Len(h.storedAdjoints) < n
                 THEN Vector([i \in 1..n |-> IF i <= Len(h.storedAdjoints)
                                               THEN h.storedAdjoints[i] ELSE 0])
                 ELSE h.storedAdjoints
      r == FoldUp(one, [t |-> t, stored |-> grown], 1, n)
  IN  [ t |-> r.t, helper |-> [h EXCEPT !.storedAdjoints = r.stored] ]

restoreInputAdjoints(t, h) ==
  LET one(tt, i) == setGradient(tt, h.inputData[i], h.storedAdjoints[i])
  IN  FoldUp(one, t, 1, Len(h.inputData))

\* the inner loop of doPreaccumulation: push the next jacobiesForStatement
\* nonzero entries of the row, starting at column curIn (counted from 0)
PushRestOfJacobians(t, row, inputData, jacobiesForStatement, curIn) ==
  LET column(acc, c) ==
        IF acc.left > 0
          THEN IF 0 # row[c + 1]
                 THEN [ t |-> pushJacobiManual(acc.t, row[c + 1], 0, inputData[c + 1]),
                        left |-> acc.left - 1, curIn |-> c + 1 ]
                 ELSE [acc EXCEPT !.curIn = c + 1]
          ELSE acc
  IN  FoldUp(column, [t |-> t, left |-> jacobiesForStatement, curIn |-> curIn],
             curIn, Len(row) - 1)

\* the number of Jacobians of a statement with the slot of the continuation
\* operand subtracted in every statement that is split off
JacobiesForStatementFirstToo(nonZerosLeft, staggeringActive) ==
  IF nonZerosLeft > MaxArgumentSize THEN MaxArgumentSize - 1 - 1 ELSE nonZerosLeft

\* "calculate the number of Jacobians for this statement"
JacobiesForStatement(nonZerosLeft, staggeringActive) ==
  IF nonZerosLeft > MaxArgumentSize
    THEN IF staggeringActive THEN MaxArgumentSize - 1 - 1
         ELSE MaxArgumentSize - 1
    ELSE nonZerosLeft

\* the loop "while (nonZerosLeft > 0)" for one output; st holds the tape, the
\* loop variables and the calls of storeManual made so far
RECURSIVE PushStatements(_, _, _, _)
PushStatements(st, lhsValue, row, inputData) ==
  IF ~(st.nonZerosLeft > 0) THEN st
  ELSE LET stag == IF st.staggeringActive THEN 1 ELSE 0
           jacobiesForStatement ==
             JacobiesForStatement(st.nonZerosLeft, st.staggeringActive)
           storedIdentifier == st.lastIdentifier
           size == ToArgumentSize(jacobiesForStatement + stag)
           s  == storeManual(st.t, lhsValue, st.lastIdentifier, size)
           t1 == IF st.staggeringActive
                   THEN pushJacobiManual(s.t, 1, 0, storedIdentifier)
                   ELSE s.t
           p  == PushRestOfJacobians(t1, row, inputData, jacobiesForStatement, st.curIn)
       IN  PushStatements(
             [ t |-> p.t,
               nonZerosLeft |-> st.nonZerosLeft - jacobiesForStatement,
               lastIdentifier |-> s.id,
               staggeringActive |-> TRUE,
               curIn |-> p.curIn,
               calls |-> Append(st.calls,
                 [ operands |-> jacobiesForStatement + stag,
                   size |-> size,
                   stmt |-> Len(s.t.stmts),
                   firstRhs |-> Len(s.t.rhsIds) + 1,
                   lastRhs |-> Len(p.t.rhsIds),
                   previous |-> storedIdentifier,
                   identifier |-> s.id,
                   staggered |-> st.staggeringActive ]) ],
             lhsValue, row, inputData)

\* the body of "for curOut" (curOut counted from 1)
PushOutput(acc, h, curOut) ==
  LET value == h.outputValues[curOut]
      nonZeros == acc.jac.nonZerosRow[curOut]
  IN  IF 0 # nonZeros
        THEN LET st == PushStatements(
                         [ t |-> acc.t, nonZerosLeft |-> nonZeros,
                           lastIdentifier |-> acc.vals[value].id,
                           staggeringActive |-> FALSE, curIn |-> 0, calls |-> <<>> ],
                         acc.vals[value].value, acc.jac.data[curOut], h.inputData)
             IN  [ t |-> st.t,
                   vals |-> [acc.vals EXCEPT ![value].id = st.lastIdentifier],
                   jac |-> [acc.jac EXCEPT !.nonZerosRow[curOut] = 0],
                   rows |-> Append(acc.rows, st.calls) ]
        ELSE LET d == destroyIdentifier(acc.t, acc.vals[value].id)
             IN  [ t |-> d.t,
                   vals |-> [acc.vals EXCEPT ![value].id = d.id],
                   jac |-> acc.jac,
                   rows |-> Append(acc.rows, <<>>) ]

\* doPreaccumulation resetting the tape before the Jacobian is computed
doPreaccumulationResetFirst(t, vs, h, outcome) ==
  LET endPos == getPosition(t)
      m   == Len(h.outputData)
      n   == Len(h.inputData)
      jac == IF h.jacobie.m # m \/ h.jacobie.n # n
               THEN JacobianResize(h.jacobie, m, n) ELSE h.jacobie
      out(acc, curOut) == PushOutput(acc, h, curOut)
      push(cj) ==
        LET done(r) ==
              [ t |-> r.t, vals |-> r.vals, helper |-> [h EXCEPT !.jacobie = r.jac],
                rows |-> r.rows, computed |-> cj.jac, err |-> cj.err ]
        IN  done(FoldUp(out, [t |-> cj.t, vals |-> vs, jac |-> cj.jac,
                              rows |-> <<>>], 1, m))
      compute(t1) ==
        push(computeJacobian(t1, jac, h.startPos, getPosition(t1), h.inputData,
                             h.outputData, outcome))
  IN  compute(resetTo(t, h.startPos))

\* the tape, the host values and the helper after the call; rows[curOut] is
\* the list of storeManual calls made for output curOut; err the exception
doPreaccumulation(t, vs, h, outcome) ==
  LET endPos == getPosition(t)
      m   == Len(h.outputData)
      n   == Len(h.inputData)
      jac == IF h.jacobie.m # m \/ h.jacobie.n # n
               THEN JacobianResize(h.jacobie, m, n) ELSE h.jacobie
      out(acc, curOut) == PushOutput(acc, h, curOut)
      \* the steps that follow the computation cj of the Jacobian
      push(cj) ==
        LET done(r) ==
              [ t |-> r.t, vals |-> r.vals, helper |-> [h EXCEPT !.jacobie = r.jac],
                rows |-> r.rows, computed |-> cj.jac, err |-> "none" ]
        IN  IF cj.err # "none"
              THEN [ t |-> cj.t, vals |-> vs, helper |-> [h EXCEPT !.jacobie = cj.jac],
                     rows |-> <<>>, computed |-> cj.jac, err |-> cj.err ]
              ELSE done(FoldUp(out, [t |-> resetTo(cj.t, h.startPos), vals |-> vs,
                                     jac |-> cj.jac, rows |-> <<>>], 1, m))
  IN  push(computeJacobian(t, jac, h.startPos, endPos, h.inputData, h.outputData,
                           outcome))

finish(t, vs, h, storeAdjoints, outputs, outcome) ==
  IF t.active
    THEN LET restore(d) ==
               IF storeAdjoints /\ d.err = "none"
                 THEN [d EXCEPT !.t = restoreInputAdjoints(d.t, d.helper)]
                 ELSE d
             \* atJacobian is the tape doPreaccumulation starts with
             observed(d, sa) ==
               [ t |-> d.t, vals |-> d.vals, helper |-> d.helper, rows |-> d.rows,
                 computed |-> d.computed, err |-> d.err, atJacobian |-> sa.t ]
             preaccumulate(sa) ==
               observed(restore(doPreaccumulation(sa.t, vs, sa.helper, outcome)), sa)
             stored(h1) ==
               preaccumulate(IF storeAdjoints THEN storeInputAdjoints(t, h1)
                             ELSE [t |-> t, helper |-> h1])
         IN  stored(addOutputRecursive(h, vs, outputs))
    ELSE [ t |-> t, vals |-> vs, helper |-> h, rows |-> <<>>,
           computed |-> h.jacobie, err |-> "none", atJacobian |-> t ]

\* PreaccumulationHelperNoOpBase, the helper of forward tapes and of double:
\* fvs are the values of the forward mode tape after the call
NoOpAddInput(fvs, inputs) == fvs

NoOpStart(fvs, inputs) == fvs

NoOpAddOutput(fvs, outputs) == fvs

NoOpFinish(fvs, storeAdjoints, outputs) == fvs

----------------------------------------------------------------------------
(* The host program.  It owns NumVars active values and calls the tape and  *)
(* the helper.  host keeps what the program remembers and, for the          *)
(* properties, the analytic derivative of every value: deriv[v] maps the    *)
(* identifier of a registered input to d v / d input.                       *)

Vars == 1..NumVars

InitialValues == [v \in Vars |-> [value |-> v, id |-> 0]]

\* the expressions the host program assigns: c * x and x + c * y (x before y)
Exprs ==
  {<<[c |-> MaxCoef, v |-> x]>> : x \in Vars}
    \cup {<<[c |-> 1, v |-> p[1]], [c |-> MaxCoef, v |-> p[2]]>> :
            p \in {q \in Vars \X Vars : q[1] < q[2]}}

Unit(identifier) == [k \in {identifier} |-> 1]

\* the analytic derivative of c_1 * x_1 + .. + c_n * x_n as reverse
\* accumulation gives it: a term whose operand does not depend on the input
\* contributes nothing
Analytic(d, terms) ==
  LET n == Len(terms)
      contribution(c, entry) == IF entry = 0 THEN 0 ELSE Times(c, entry)
  IN  Normalize([i \in UNION {DOMAIN d[terms[k].v] : k \in 1..n} |->
                   Sum([k \in 1..n |-> contribution(Coefficient(terms[k]),
                                                     Get(d[terms[k].v], i))])])

\* the analytic derivative as tangent propagation gives it, in the directions
\* inputs: every term contributes coefficient * tangent of the operand
AnalyticTangent(d, terms, inputs) ==
  Normalize([i \in inputs |->
               Sum([k \in 1..Len(terms) |-> Times(Coefficient(terms[k]),
                                                  Get(d[terms[k].v], i))])])

\* the terms of finite coefficient
FiniteTerms(terms) == SelectSeq(terms, LAMBDA term : isTotalFinite(Coefficient(term)))

NewHost(values) ==
  [ calls   |-> 0,
    stores  |-> 0,
    phase   |-> "record",
    hasPos  |-> FALSE,
    pos     |-> ZeroPosition,
    atPos   |-> PrimalValueBaseTape,
    ops     |-> <<>>,
    resets  |-> 0,
    deriv   |-> [v \in DOMAIN values |-> NoEntries],
    \* deriv without the terms of non-finite coefficients
    sderiv  |-> [v \in DOMAIN values |-> NoEntries],
    \* the derivative as tangent propagation gives it
    tderiv  |-> [v \in DOMAIN values |-> NoEntries],
    \* the values of the forward mode tape and the number of calls to it
    fvals   |-> [v \in DOMAIN values |->
                   [value |-> values[v].value, gradient |-> ForwardInitIdentifier]],
    fcalls  |-> 0,
    rderiv  |-> [v \in DOMAIN values |-> NoEntries],
    inputs  |-> {},
    region  |-> "none",
    width   |-> 0,
    \* a second helper, whose region encloses the region of helper
    outer   |-> PreaccumulationHelper,
    nested  |-> "none",
    outerInputs |-> <<>>,
    \* the identifiers the values of helper.outputValues had when they were
    \* added
    added   |-> <<>>,
    \* the position of the tape and the identifiers of the arguments at the
    \* last start that ran on an active tape
    started |-> [startPos |-> [stmt |-> 0, rhs |-> 0, pas |-> 0, con |-> 0, idx |-> 0],
                 inputData |-> <<>>],
    \* a second tape
    other   |-> PrimalValueBaseTape,
    \* an adjoint interface object, and what it was at its last setLhsAdjoint
    access  |-> AdjointInterfaceImplBase(<<>>, 1),
    atSet   |-> [index |-> 0, access |-> AdjointInterfaceImplBase(<<>>, 1)],
    \* a wrapper object for std::complex values
    wrapper |-> AggregatedTypeVectorAccessWrapperBase(
                  VectorAccessInterface(<<>>, <<>>, 1)) ]

\* the identifiers start collects: those of the inputs that are not 0, in the
\* order of the arguments
ActiveIdentifiers(vs, inputs) ==
  SelectSeq([k \in 1..Len(inputs) |-> vs[inputs[k]].id], LAMBDA id : id # 0)

Called(op) == [host EXCEPT !.calls = @ + 1, !.ops = Append(@, op)]

Before == [tape |-> tape, vals |-> vals, helper |-> helper]

RegisterInput(v) ==
  /\ err = "none"
  /\ \E r \in {registerInput(tape, vals, v)} :
         /\ tape' = r.t
         /\ vals' = r.vals
         /\ host' = [Called("registerInput") EXCEPT
                       !.inputs = @ \cup {r.vals[v].id},
                       !.deriv[v] = Unit(r.vals[v].id),
                       !.sderiv[v] = Unit(r.vals[v].id),
                       !.tderiv[v] = Unit(r.vals[v].id),
                       !.rderiv[v] = Unit(r.vals[v].id)]
         /\ last' = [op |-> "registerInput", v |-> v, ret |-> r.ret,
                     pushed |-> r.pushed, pre |-> Before]
  /\ UNCHANGED <<cfg, helper, err>>

RegisterExternalFunctionOutput(v) ==
  /\ err = "none"
  /\ \E r \in {registerExternalFunctionOutput(tape, vals, v)} :
         /\ tape' = r.t
         /\ vals' = r.vals
         /\ host' = [Called("registerExternalFunctionOutput") EXCEPT
                       !.inputs = @ \cup {r.vals[v].id},
                       !.deriv[v] = Unit(r.vals[v].id),
                       !.sderiv[v] = Unit(r.vals[v].id),
                       !.tderiv[v] = Unit(r.vals[v].id),
                       !.rderiv[v] = Unit(r.vals[v].id)]
         /\ last' = [op |-> "registerExternalFunctionOutput", v |-> v, ret |-> r.ret,
                     pushed |-> r.pushed, pre |-> Before]
  /\ UNCHANGED <<cfg, helper, err>>

\* lhs = rhs for the active values lhs and rhs
StoreActive(lhs, rhs) ==
  /\ err = "none"
  /\ \E r \in {storeActive(tape, vals, lhs, rhs)} :
         /\ tape' = r.t
         /\ vals' = r.vals
         /\ host' = [Called("storeActive") EXCEPT !.stores = @ + 1,
                               !.deriv[lhs] = host.deriv[rhs],
                               !.sderiv[lhs] = host.sderiv[rhs],
                               !.tderiv[lhs] = host.tderiv[rhs],
                               !.rderiv[lhs] = host.rderiv[rhs]]
         /\ last' = [op |-> "storeActive", lhs |-> lhs, rhs |-> rhs,
                     reserved |-> r.reserved, pre |-> Before]
  /\ UNCHANGED <<cfg, helper, err>>

SetActive ==
  /\ err = "none"
  /\ tape' = setActive(tape)
  /\ host' = Called("setActive")
  /\ last' = [op |-> "setActive", pre |-> Before]
  /\ UNCHANGED <<cfg, vals, helper, err>>

SetPassive ==
  /\ err = "none"
  /\ tape' = setPassive(tape)
  /\ host' = Called("setPassive")
  /\ last' = [op |-> "setPassive", pre |-> Before]
  /\ UNCHANGED <<cfg, vals, helper, err>>

Store(lhs, terms) ==
  /\ err = "none"
  /\ \E r \in {store(tape, vals, lhs, terms)} :
         /\ tape' = r.t
         /\ vals' = r.vals
         /\ host' = [Called("store") EXCEPT !.stores = @ + 1,
                               !.deriv[lhs] = Analytic(host.deriv, terms),
                               !.sderiv[lhs] = Analytic(host.sderiv, FiniteTerms(terms)),
                               !.tderiv[lhs] = AnalyticTangent(host.tderiv, terms,
                                                               host.inputs),
                               !.rderiv[lhs] = Analytic(host.rderiv, terms)]
         /\ last' = [op |-> "store", lhs |-> lhs, terms |-> terms,
                     reserved |-> r.reserved, pre |-> Before]
  /\ UNCHANGED <<cfg, helper, err>>

GetPosition ==
  /\ err = "none"
  /\ host' = [host EXCEPT !.calls = @ + 1, !.ops = <<>>, !.hasPos = TRUE,
                          !.pos = getPosition(tape), !.atPos = tape]
  /\ last' = [op |-> "getPosition", pre |-> Before]
  /\ UNCHANGED <<cfg, tape, vals, helper, err>>

ResetTo ==
  /\ err = "none"
  /\ host.hasPos
  /\ tape' = resetTo(tape, host.pos)
  /\ host' = [host EXCEPT !.calls = @ + 1, !.hasPos = FALSE, !.resets = @ + 1]
  /\ last' = [op |-> "resetTo", pos |-> host.pos, pre |-> Before]
  /\ UNCHANGED <<cfg, vals, helper, err>>

Outcomes == {"crash", "noop"}

Start(inputs) ==
  /\ err = "none"
  /\ helper' = start(tape, helper, vals, inputs)
  /\ host' = [Called("start") EXCEPT
                !.region = "open",
                !.added = IF tape.active THEN <<>> ELSE @,
                !.started = IF tape.active
                              THEN [startPos |-> getPosition(tape),
                                    inputData |-> ActiveIdentifiers(vals, inputs)]
                              ELSE @,
                !.rderiv = [v \in DOMAIN vals |->
                              IF vals[v].id # 0 THEN Unit(vals[v].id) ELSE NoEntries]]
  /\ last' = [op |-> "start", inputs |-> inputs, pre |-> Before]
  /\ UNCHANGED <<cfg, tape, vals, err>>

\* start of the second helper
StartOuter(inputs) ==
  /\ err = "none"
  /\ host' = [Called("startOuter") EXCEPT
                !.outer = start(tape, host.outer, vals, inputs),
                !.nested = "open",
                !.outerInputs = inputs,
                !.rderiv = [v \in DOMAIN vals |->
                              IF vals[v].id # 0 THEN Unit(vals[v].id) ELSE NoEntries]]
  /\ last' = [op |-> "startOuter", inputs |-> inputs, pre |-> Before]
  /\ UNCHANGED <<cfg, tape, vals, helper, err>>

Finish(storeAdjoints, outputs) ==
  /\ err = "none"
  /\ \E outcome \in Outcomes :
       \E f \in {finish(tape, vals, helper, storeAdjoints, outputs, outcome)} :
           /\ tape' = f.t
           /\ vals' = f.vals
           /\ helper' = f.helper
           /\ err' = f.err
           /\ last' = [op |-> "finish", rows |-> f.rows, computed |-> f.computed,
                       storeAdjoints |-> storeAdjoints, outputs |-> outputs,
                       atJacobian |-> f.atJacobian, pre |-> Before]
  /\ host' = [Called("finish") EXCEPT
                !.region = "closed",
                !.added = IF tape.active
                            THEN @ \o ActiveIdentifiers(vals, outputs) ELSE @]
  /\ UNCHANGED cfg

\* a call of the helper of the forward mode tape
NoOpCalled(op, fvs) ==
  /\ err = "none"
  /\ host' = [host EXCEPT !.fcalls = @ + 1, !.fvals = fvs]
  /\ last' = [op |-> op, fpre |-> host.fvals, pre |-> Before]
  /\ UNCHANGED <<cfg, tape, vals, helper, err>>

AddInput(inputs) ==
  /\ err = "none"
  /\ helper' = addInput(tape, helper, vals, inputs)
  /\ host' = Called("addInput")
  /\ last' = [op |-> "addInput", inputs |-> inputs, pre |-> Before]
  /\ UNCHANGED <<cfg, tape, vals, err>>

AddOutput(outputs) ==
  /\ err = "none"
  /\ helper' = addOutput(tape, helper, vals, outputs)
  /\ host' = [Called("addOutput") EXCEPT
                !.added = IF tape.active
                            THEN @ \o ActiveIdentifiers(vals, outputs) ELSE @]
  /\ last' = [op |-> "addOutput", outputs |-> outputs, pre |-> Before]
  /\ UNCHANGED <<cfg, tape, vals, err>>

\* finish of the second helper, right after the finish of helper and with the
\* outputs that finish was given; inner is the Jacobian that finish computed
FinishOuter(storeAdjoints) ==
  /\ err = "none"
  /\ last.op = "finish"
  /\ \E outcome \in Outcomes :
       \E f \in {finish(tape, vals, host.outer, storeAdjoints, helper.outputValues,
                        outcome)} :
           /\ tape' = f.t
           /\ vals' = f.vals
           /\ err' = f.err
           /\ host' = [Called("finishOuter") EXCEPT !.outer = f.helper,
                                                    !.nested = "closed"]
           /\ last' = [op |-> "finishOuter", rows |-> f.rows, computed |-> f.computed,
                       inner |-> last.computed, pre |-> Before]
  /\ UNCHANGED <<cfg, helper>>

SetGradient(v, value) ==
  /\ err = "none"
  /\ tape' = setGradient(tape, vals[v].id, value)
  /\ host' = [Called("setGradient") EXCEPT !.phase = "seeded"]
  /\ last' = [op |-> "setGradient", v |-> v, value |-> value, pre |-> Before]
  /\ UNCHANGED <<cfg, vals, helper, err>>

Replayed(op, from, to, e) ==
  /\ tape' = e.t
  /\ err' = e.r.err
  /\ host' = [Called(op) EXCEPT !.phase = "done"]
  /\ last' = [op |-> op, from |-> from, to |-> to, visits |-> e.r.visits,
              operands |-> e.r.operands,
              cursors |-> [con |-> e.r.con, pas |-> e.r.pas, rhs |-> e.r.rhs],
              pre |-> Before]
  /\ UNCHANGED <<cfg, vals, helper>>

\* tape.evaluate(tape.getPosition(), end)
Evaluate(end) ==
  /\ err = "none"
  /\ \E outcome \in Outcomes :
       Replayed("evaluate", getPosition(tape), end,
                evaluate(tape, getPosition(tape), end, outcome))

\* tape.evaluateForward(from, tape.getPosition())
EvaluateForward(from) ==
  /\ err = "none"
  /\ \E outcome \in Outcomes :
       Replayed("evaluateForward", from, getPosition(tape),
                evaluateForward(tape, from, getPosition(tape), outcome))

\* tape.evaluatePrimal(from, tape.getPosition())
EvaluatePrimal(from) ==
  /\ err = "none"
  /\ \E outcome \in Outcomes :
       Replayed("evaluatePrimal", from, getPosition(tape),
                evaluatePrimal(tape, from, getPosition(tape), outcome))

\* tape.evaluateKeepState(from, to)
EvaluateKeepState(from, to) ==
  /\ err = "none"
  /\ \E outcome \in Outcomes :
       Replayed("evaluateKeepState", from, to,
                evaluateKeepState(tape, from, to, outcome))

\* tape.storeManual(value, lhs identifier, size) followed by one
\* pushJacobiManual(jacobian, value, identifier) for every term of row; the
\* host program has computed the value of lhs
StoreManual(lhs, row) ==
  /\ err = "none"
  /\ \A k \in 1..Len(row) : vals[row[k].v].id # 0 /\ row[k].v # lhs
  /\ \E s \in {storeManual(tape, RhsValue(vals, row), vals[lhs].id, Len(row))},
        outcome \in Outcomes :
       LET push(t, k) == pushJacobiManual(t, row[k].c, vals[row[k].v].value,
                                          vals[row[k].v].id)
       IN  /\ tape' = FoldUp(push, s.t, 1, Len(row))
           /\ vals' = [vals EXCEPT ![lhs] = [value |-> RhsValue(vals, row),
                                             id |-> s.id]]
           \* an access outside the primal vector is undefined behaviour
           /\ err' = IF s.outOfPrimals /\ outcome = "crash"
                       THEN "undefined behaviour" ELSE "none"
  /\ host' = [Called("storeManual") EXCEPT !.stores = @ + 1,
                        !.deriv[lhs] = Analytic(host.deriv, row),
                        !.sderiv[lhs] = Analytic(host.sderiv, FiniteTerms(row)),
                        !.tderiv[lhs] = AnalyticTangent(host.tderiv, row, host.inputs),
                        !.rderiv[lhs] = Analytic(host.rderiv, row)]
  /\ last' = [op |-> "storeManual", lhs |-> lhs, terms |-> row, pre |-> Before]
  /\ UNCHANGED <<cfg, helper>>

\* value.setGradient(g) on the forward mode tape
SetForwardGradient(v, g) ==
  /\ err = "none"
  /\ host' = [host EXCEPT !.fcalls = @ + 1,
                          !.fvals = ForwardSetGradient(@, v, g)]
  /\ last' = [op |-> "forwardSetGradient", v |-> v, pre |-> Before]
  /\ UNCHANGED <<cfg, tape, vals, helper, err>>

\* lhs = rhs on the forward mode tape
StoreForward(lhs, terms) ==
  /\ err = "none"
  /\ host' = [host EXCEPT !.fcalls = @ + 1,
                          !.fvals = ForwardStore(@, lhs, terms)]
  /\ last' = [op |-> "forwardStore", lhs |-> lhs, terms |-> terms,
              fpre |-> host.fvals, pre |-> Before]
  /\ UNCHANGED <<cfg, tape, vals, helper, err>>

\* lhs = rhs on the forward mode tape, rhs an active value
StoreForwardActive(lhs, rhs) ==
  /\ err = "none"
  /\ host' = [host EXCEPT !.fcalls = @ + 1,
                          !.fvals = ForwardStoreActive(@, lhs, rhs)]
  /\ last' = [op |-> "forwardStoreActive", lhs |-> lhs, rhs |-> rhs,
              fpre |-> host.fvals, pre |-> Before]
  /\ UNCHANGED <<cfg, tape, vals, helper, err>>

\* lhs = rhs on the forward mode tape, rhs a passive value
StoreForwardPassive(lhs, rhs) ==
  /\ err = "none"
  /\ host' = [host EXCEPT !.fcalls = @ + 1,
                          !.fvals = ForwardStorePassive(@, lhs, rhs)]
  /\ last' = [op |-> "forwardStorePassive", lhs |-> lhs, rhs |-> rhs,
              fpre |-> host.fvals, pre |-> Before]
  /\ UNCHANGED <<cfg, tape, vals, helper, err>>

\* a call on the adjoint interface object that gives the object next
Accessed(op, index, next) ==
  /\ err = "none"
  /\ host' = [Called(op) EXCEPT
                !.access = next,
                !.atSet = IF op = "setLhsAdjoint"
                            THEN [index |-> index, access |-> host.access] ELSE @]
  /\ UNCHANGED <<cfg, tape, vals, helper, err>>

SetLhsAdjoint(index) ==
  /\ Accessed("setLhsAdjoint", index, setLhsAdjoint(host.access, index))
  /\ last' = [op |-> "setLhsAdjoint", index |-> index, before |-> last,
              apre |-> host.access, pre |-> Before]

ResetAdjointVec(index) ==
  /\ Accessed("resetAdjointVec", index, resetAdjointVec(host.access, index))
  /\ last' = [op |-> "resetAdjointVec", index |-> index, before |-> last,
              apre |-> host.access, pre |-> Before]

ResetAdjoint(index, dim) ==
  /\ Accessed("resetAdjoint", index, resetAdjoint(host.access, index, dim))
  /\ last' = [op |-> "resetAdjoint", index |-> index, dim |-> dim,
              apre |-> host.access, pre |-> Before]

UpdateAdjoint(index, dim, adjoint) ==
  /\ Accessed("updateAdjoint", index,
              updateAdjoint(host.access, index, dim, adjoint))
  /\ last' = [op |-> "updateAdjoint", index |-> index, dim |-> dim,
              adjoint |-> adjoint, apre |-> host.access, pre |-> Before]

UpdateJacobiAdjoint(index, jacobi) ==
  /\ Accessed("updateJacobiAdjoint", index,
              updateJacobiAdjoint(host.access, index, jacobi))
  /\ last' = [op |-> "updateJacobiAdjoint", index |-> index, jacobi |-> jacobi,
              before |-> last, apre |-> host.access, pre |-> Before]

\* a call on the wrapper object that gives the object next
Wrapped(op, index, argument, next) ==
  /\ err = "none"
  /\ host' = [Called(op) EXCEPT !.wrapper = next]
  /\ last' = [op |-> op, index |-> index, argument |-> argument,
              wpre |-> host.wrapper, pre |-> Before]
  /\ UNCHANGED <<cfg, tape, vals, helper, err>>

WrapperSetLhsAdjointCall(index) ==
  Wrapped("setLhsAdjoint", index, 0, WrapperSetLhsAdjoint(host.wrapper, index))

UpdateAdjointWithLhs(index, jacobi) ==
  Wrapped("updateAdjointWithLhs", index, jacobi,
          updateAdjointWithLhs(host.wrapper, index, jacobi))

UpdateTangentWithLhs(index, jacobi) ==
  Wrapped("updateTangentWithLhs", index, jacobi,
          updateTangentWithLhs(host.wrapper, index, jacobi))

SetLhsTangent(index) ==
  Wrapped("setLhsTangent", index, 0, setLhsTangent(host.wrapper, index))

IsLhsZero ==
  Wrapped("isLhsZero", Complex(0, 0), isLhsZero(host.wrapper), host.wrapper)

\* the direct operations; dim 0 stands for the operation on the whole vector
DirectUpdateAdjoint(index, dim, adjoint) ==
  Wrapped("updateAdjoint", index, [dim |-> dim, adjoint |-> adjoint],
          ComplexUpdateAdjoint(host.wrapper, index, dim, adjoint))

DirectResetAdjoint(index, dim) ==
  Wrapped("resetAdjoint", index, [dim |-> dim],
          IF dim = 0 THEN ComplexResetAdjointVec(host.wrapper, index)
          ELSE ComplexResetAdjoint(host.wrapper, index, dim))

DirectGetAdjoint(index, dim) ==
  Wrapped("getAdjoint", index,
          [dim |-> dim, ret |-> ComplexGetAdjoint(host.wrapper, index, dim)],
          host.wrapper)

DirectSetPrimal(index, primal) ==
  Wrapped("setPrimal", index, primal, ComplexSetPrimal(host.wrapper, index, primal))

DirectGetPrimal(index) ==
  Wrapped("getPrimal", index, ComplexGetPrimal(host.wrapper, index), host.wrapper)

\* tape.getParameter(parameter)
GetParameter(parameter) ==
  /\ err = "none"
  /\ host' = Called("getParameter")
  /\ last' = [op |-> "getParameter", parameter |-> parameter,
              ret |-> getParameter(tape, parameter), pre |-> Before]
  /\ UNCHANGED <<cfg, tape, vals, helper, err>>

\* tape.setParameter(parameter, value)
SetParameter(parameter, value) ==
  /\ err = "none"
  /\ \E s \in {setParameter(tape, parameter, value)} :
       /\ tape' = s.t
       /\ err' = s.err
  /\ host' = Called("setParameter")
  /\ last' = [op |-> "setParameter", parameter |-> parameter, value |-> value,
              pre |-> Before]
  /\ UNCHANGED <<cfg, vals, helper>>

\* tape.swap(other); origin is what the two tapes were before the first of two
\* consecutive swaps
Swap ==
  /\ err = "none"
  /\ \E s \in {swap(tape, host.other)} :
       /\ tape' = s.a
       /\ host' = [Called("swap") EXCEPT !.other = s.b]
  /\ last' = [op |-> "swap", other |-> host.other, again |-> last.op = "swap",
              origin |-> IF last.op = "swap"
                           THEN [tape |-> last.pre.tape, other |-> last.other]
                           ELSE [tape |-> tape, other |-> host.other],
              pre |-> Before]
  /\ UNCHANGED <<cfg, vals, helper, err>>

----------------------------------------------------------------------------
(* Recording and reset: the host program makes up to MaxCalls calls in any  *)
(* order.                                                                   *)

Init ==
  /\ cfg \in {DefaultConfig(isLinear) : isLinear \in BOOLEAN}
  /\ tape = PrimalValueBaseTape
  /\ vals = InitialValues
  /\ helper = PreaccumulationHelper
  /\ host = NewHost(InitialValues)
  /\ last = [op |-> "none", pre |-> [tape |-> PrimalValueBaseTape,
                                     vals |-> InitialValues,
                                     helper |-> PreaccumulationHelper]]
  /\ err = "none"

Next ==
  /\ host.calls < MaxCalls
  /\ \/ \E v \in Vars : RegisterInput(v)
     \/ \E lhs \in Vars, terms \in Exprs :
          host.stores < MaxStmts /\ Store(lhs, terms)
     \/ GetPosition
     \/ ResetTo

Spec == Init /\ [][Next]_vars

----------------------------------------------------------------------------
(* Preaccumulation of a wide row.  The host program registers the inputs    *)
(* x_1 .. x_N, starts a region, assigns y = sum of Coef(j) * x_j over the     *)
(* columns j with Coef(j) # 0 and z = 0 * x_1, finishes the region with the   *)
(* outputs y and z, seeds the adjoint of y and evaluates the tape in         *)
(* reverse.  host.width is the number of nonzero entries of the row of y.    *)

\* the numbers of nonzero entries: small ones and those around one and two
\* full statements
RowWidths ==
  (1..SmallRows)
    \cup {MaxArgumentSize - 1, MaxArgumentSize, MaxArgumentSize + 1}
    \cup ((2 * MaxArgumentSize - 3)..(2 * MaxArgumentSize))

\* the column the row of y does not use
UnusedColumn == 2

NumInputs == host.width + 1

RowVar == NumInputs + 1

ZeroVar == NumInputs + 2

Coef(j) == IF j = UnusedColumn THEN 0 ELSE 1 + (j % MaxCoef)

RowTerms ==
  LET used == SelectSeq(Indices(NumInputs), LAMBDA j : Coef(j) # 0)
  IN  [k \in 1..Len(used) |-> [c |-> Coef(used[k]), v |-> used[k]]]

InitPreacc ==
  /\ cfg \in {DefaultConfig(isLinear) : isLinear \in BOOLEAN}
  /\ tape = PrimalValueBaseTape
  /\ helper = PreaccumulationHelper
  /\ \E width \in RowWidths :
       /\ vals = [v \in 1..(width + 3) |-> [value |-> v, id |-> 0]]
       /\ host = [NewHost(vals) EXCEPT !.width = width]
       /\ last = [op |-> "none", pre |-> [tape |-> PrimalValueBaseTape,
                                          vals |-> vals,
                                          helper |-> PreaccumulationHelper]]
  /\ err = "none"

NextPreacc ==
  \/ host.calls < NumInputs /\ RegisterInput(host.calls + 1)
  \/ host.calls = NumInputs /\ Start(Indices(NumInputs))
  \/ host.calls = NumInputs + 1 /\ Store(RowVar, RowTerms)
  \/ host.calls = NumInputs + 2 /\ Store(ZeroVar, <<[c |-> 0, v |-> 1]>>)
  \/ \E storeAdjoints \in BOOLEAN, outputs \in {<<RowVar, ZeroVar>>, <<ZeroVar, RowVar>>} :
       host.calls = NumInputs + 3 /\ Finish(storeAdjoints, outputs)
  \/ \E value \in 1..MaxCoef :
       host.calls = NumInputs + 4 /\ vals[RowVar].id # 0 /\ SetGradient(RowVar, value)
  \/ host.calls = NumInputs + 5 /\ Evaluate(ZeroPosition)

SpecPreacc == InitPreacc /\ [][NextPreacc]_vars

----------------------------------------------------------------------------
(* Properties of recording and reset                                       *)

LayerSizes(t) ==
  <<Len(t.stmts), Len(t.rhsIds), Len(t.passiveVals), Len(t.constVals)>>

AllLeavesPassive(vs, terms) == \A k \in 1..Len(terms) : vs[terms[k].v].id = 0

PrunedStore ==
  /\ last.op = "store"
  /\ last.pre.tape.active
  /\ AllLeavesPassive(last.pre.vals, last.terms)

\* C1: a store on an active tape whose leaves all have identifier 0 frees the
\* previous identifier of lhs, leaves lhs with identifier 0, adds no record to
\* any of the four layers, and lhs receives the value of rhs.
C1_ZeroDerivativePruning ==
  PrunedStore =>
    LET old == last.pre.vals[last.lhs].id
    IN  /\ vals[last.lhs].id = 0
        /\ LayerSizes(tape) = LayerSizes(last.pre.tape)
        /\ tape.stmts = last.pre.tape.stmts
        /\ vals[last.lhs].value = RhsValue(last.pre.vals, last.terms)
        /\ tape.freeList = IF ~cfg.linear /\ old # 0
                             THEN Append(last.pre.tape.freeList, old)
                             ELSE last.pre.tape.freeList
        /\ tape.count = last.pre.tape.count

\* C1 witness: a pruned store to a value that was active, on a tape that holds
\* statements
C1_Witness ==
  /\ PrunedStore
  /\ last.pre.vals[last.lhs].id # 0
  /\ vals[last.lhs].id = 0
  /\ Len(last.terms) = 2
  /\ Len(tape.stmts) > 0

RoundTrip == last.op = "resetTo" /\ host.ops = <<"registerInput">>

OnlyStoresSincePosition == \A k \in 1..Len(host.ops) : host.ops[k] = "store"

\* C4: under the reuse policy a recorded statement carries the value its
\* output slot held before the statement, and after getPosition, any number of
\* store calls and resetTo(pos), every primal slot holds the value it held
\* when the position was taken.
C4_PrimalRollback ==
  ~cfg.linear =>
    /\ (last.op = "store" /\ Len(tape.stmts) = Len(last.pre.tape.stmts) + 1) =>
         LET stmt == tape.stmts[Len(tape.stmts)]
         IN  /\ stmt.lhs = vals[last.lhs].id
             /\ stmt.oldPrimal = Get(last.pre.tape.primals, stmt.lhs)
    /\ (last.op = "resetTo" /\ OnlyStoresSincePosition) =>
         tape.primals = host.atPos.primals

\* C4 witness: a reset that rolled back a statement which had overwritten a
\* nonzero primal value
C4_Witness ==
  /\ ~cfg.linear
  /\ last.op = "resetTo"
  /\ OnlyStoresSincePosition
  /\ Len(host.ops) >= 1
  /\ \E i \in DOMAIN host.atPos.primals :
       Get(last.pre.tape.primals, i) # host.atPos.primals[i]
  /\ tape.primals = host.atPos.primals

----------------------------------------------------------------------------
(* Record, preaccumulate and replay: the host program registers inputs,     *)
(* records up to MaxStmts statements, optionally inside a preaccumulation   *)
(* region, seeds one adjoint and replays the tape once.                     *)

AllVars == [v \in Vars |-> v]

OutputLists == {<<v>> : v \in Vars}

\* the start of the replayed range: the start of the tape or of the region
RangeEnds == {ZeroPosition} \cup {helper.startPos : b \in {host.region # "none"}}

NextReplay ==
  \/ \E v \in Vars :
       /\ host.phase = "record" /\ host.region = "none" /\ host.stores = 0
       /\ \A w \in Vars : w >= v => vals[w].id = 0
       /\ RegisterInput(v)
  \/ \E lhs \in Vars, terms \in Exprs :
       /\ host.phase = "record" /\ host.region # "closed" /\ host.stores < MaxStmts
       /\ Store(lhs, terms)
  \/ /\ host.phase = "record" /\ host.region = "none" /\ host.stores = 0
     /\ Start(AllVars)
  \/ \E storeAdjoints \in BOOLEAN, outputs \in OutputLists :
       /\ host.phase = "record" /\ host.region = "open"
       /\ Finish(storeAdjoints, outputs)
  \/ \E v \in Vars, value \in 1..MaxCoef :
       /\ host.phase = "record" /\ host.region # "open" /\ vals[v].id # 0
       /\ SetGradient(v, value)
  \/ \E end \in RangeEnds : host.phase = "seeded" /\ Evaluate(end)
  \/ \E from \in RangeEnds : host.phase = "seeded" /\ EvaluateForward(from)
  \/ \E from \in RangeEnds : host.phase = "seeded" /\ EvaluatePrimal(from)

SpecReplay == Init /\ [][NextReplay]_vars

----------------------------------------------------------------------------
(* Properties of replay                                                    *)

ReverseOverTape ==
  /\ last.op = "evaluate"
  /\ err = "none"
  /\ last.to = ZeroPosition
  /\ host.region = "none"

\* the adjoint vector before the replay holds the seed value on y and nothing else
SeededOn(y, value) ==
  /\ vals[y].id # 0
  /\ last.pre.tape.adjoints = [k \in {vals[y].id} |-> value]

\* C2: reverse replay adds coefficient * output adjoint to the adjoint of every
\* operand; after seeding the adjoint of y and evaluating the whole tape in
\* reverse, the adjoint of every registered input is the seed times dy/dinput
\* (for y = a*x1 + b*x2 and seed 1: a and b).
C2_ReversePartials ==
  ReverseOverTape =>
    \A y \in Vars, value \in 1..MaxCoef :
      SeededOn(y, value) =>
        \A i \in host.inputs :
          Get(tape.adjoints, i) = value * Get(host.deriv[y], i)

\* C2 witness: y = x1 + MaxCoef * x2 is the last statement, the seed on y is 1,
\* and the replay left 1 on x1 and MaxCoef on x2
C2_Witness ==
  /\ ReverseOverTape
  /\ \E y \in Vars, x1 \in Vars, x2 \in Vars :
       /\ SeededOn(y, 1)
       /\ x1 # x2 /\ y # x1 /\ y # x2
       /\ vals[x1].id \in host.inputs /\ vals[x2].id \in host.inputs
       /\ host.deriv[y] = [k \in {vals[x1].id, vals[x2].id} |->
                             IF k = vals[x1].id THEN 1 ELSE MaxCoef]
       /\ Get(tape.adjoints, vals[x1].id) = 1
       /\ Get(tape.adjoints, vals[x2].id) = MaxCoef

IsManual(stmt) == stmt.handle.kind \in {"jac", "outOfTable"}

\* the rhs identifier records of statement k of tape t: the records pushed with it
RhsRecordsBefore(t, k) ==
  Sum([j \in 1..(k - 1) |->
         IF t.stmts[j].handle.kind = "input" THEN 0
         ELSE IF IsManual(t.stmts[j]) THEN t.stmts[j].nPassive
         ELSE t.stmts[j].handle.size])

Descending(hi, lo) == [i \in 1..(hi - lo + 1) |-> hi - i + 1]

Ascending(lo, hi) == [i \in 1..(hi - lo + 1) |-> lo + i - 1]

\* C5: a replay that ends without exception visits every statement of its range
\* exactly once, in decreasing order for reverse evaluation and in increasing
\* order for forward and primal evaluation, and reverse replay consumes the
\* operands of a manual statement from the last pushed to the first.
C5_ReplayOrder ==
  err = "none" =>
    /\ last.op = "evaluate" =>
         /\ last.visits = Descending(last.from.stmt, last.to.stmt + 1)
         /\ \A k \in (last.to.stmt + 1)..last.from.stmt :
              LET t == last.pre.tape
                  first == RhsRecordsBefore(t, k) + 1
                  final == RhsRecordsBefore(t, k) + t.stmts[k].nPassive
                  mine  == SelectSeq(last.operands,
                                     LAMBDA i : first <= i /\ i <= final)
              IN  IF IsManual(t.stmts[k])
                    THEN mine = <<>> \/ mine = Descending(final, first)
                    ELSE TRUE
         /\ \A i \in 1..Len(last.operands) :
              \E k \in (last.to.stmt + 1)..last.from.stmt :
                /\ IsManual(last.pre.tape.stmts[k])
                /\ RhsRecordsBefore(last.pre.tape, k) < last.operands[i]
                /\ last.operands[i] <= RhsRecordsBefore(last.pre.tape, k)
                                         + last.pre.tape.stmts[k].nPassive
    /\ last.op \in {"evaluateForward", "evaluatePrimal"} =>
         last.visits = Ascending(last.from.stmt + 1, last.to.stmt)

\* C5 witness: a reverse replay over at least two statements that consumed the
\* two operands of a manual statement
C5_Witness ==
  /\ last.op = "evaluate"
  /\ err = "none"
  /\ Len(last.visits) >= 2
  /\ Len(last.operands) >= 2
  /\ last.operands[1] = last.operands[2] + 1

----------------------------------------------------------------------------
(* Properties of preaccumulation                                           *)

Finished == last.op = "finish" /\ err = "none" /\ last.pre.tape.active

\* the statements of tape t after position pos
StatementsFrom(t, pos) == SubSeq(t.stmts, pos.stmt + 1, Len(t.stmts))

\* the number of storeManual calls finish made
ManualCalls == Sum([i \in 1..Len(last.rows) |-> Len(last.rows[i])])

\* C10: finish computes the Jacobian of the region first (it is the analytic
\* Jacobian of the statements recorded since start), then resets the tape to
\* startPos, then pushes the manual statements: afterwards the tape up to
\* startPos is as before and holds from startPos on the manual statements
\* only.
C10_StepOrder ==
  Finished =>
    /\ \A i \in 1..Len(helper.outputData), j \in 1..Len(helper.inputData) :
         last.computed.data[i][j]
           = Get(host.rderiv[helper.outputValues[i]], helper.inputData[j])
    /\ SubSeq(tape.stmts, 1, helper.startPos.stmt)
         = SubSeq(last.pre.tape.stmts, 1, helper.startPos.stmt)
    /\ \A k \in 1..Len(StatementsFrom(tape, helper.startPos)) :
         IsManual(StatementsFrom(tape, helper.startPos)[k])
    /\ Len(StatementsFrom(tape, helper.startPos)) = ManualCalls
    /\ Len(tape.constVals) = helper.startPos.con

\* C10 witness: a finish over a region of two recorded statements that left one
\* manual statement with two operands
C10_Witness ==
  /\ Finished
  /\ Len(StatementsFrom(last.pre.tape, helper.startPos)) = 2
  /\ \A k \in 1..2 : ~IsManual(StatementsFrom(last.pre.tape, helper.startPos)[k])
  /\ Len(StatementsFrom(tape, helper.startPos)) = 1
  /\ tape.stmts[Len(tape.stmts)].nPassive = 2
  /\ last.computed.nonZerosRow = <<2>>

\* the columns of the computed Jacobian row curOut that are not zero
NonZeroColumns(curOut) ==
  SelectSeq(Indices(Len(helper.inputData)),
            LAMBDA j : last.computed.data[curOut][j] # 0)

\* the passive value record pushed together with rhs identifier record p
PassiveOf(p) == helper.startPos.pas + (p - helper.startPos.rhs)

\* the records of the chain of output curOut without the continuation
\* self-references, from the first pushed to the last
ChainRecords(curOut) ==
  LET calls == last.rows[curOut]
      selfReference(p) ==
        \E c \in 1..Len(calls) : calls[c].staggered /\ calls[c].firstRhs = p
  IN  SelectSeq(Ascending(calls[1].firstRhs, calls[Len(calls)].lastRhs),
                LAMBDA p : ~selfReference(p))

\* C6: for every output row with nonzero entries the manual statements hold,
\* apart from the continuation self-references, exactly one (coefficient,
\* input identifier) pair per nonzero entry in increasing column order, and
\* every storeManual(size) is followed by exactly size pushJacobiManual calls.
C6_ReemissionExact ==
  Finished =>
    \A curOut \in 1..Len(last.rows) :
      LET columns == NonZeroColumns(curOut)
          calls   == last.rows[curOut]
      IN  Len(columns) > 0 =>
            /\ Len(calls) > 0
            /\ [q \in 1..Len(ChainRecords(curOut)) |->
                  << tape.passiveVals[PassiveOf(ChainRecords(curOut)[q])],
                     tape.rhsIds[ChainRecords(curOut)[q]] >>]
                 = [q \in 1..Len(columns) |->
                      << last.computed.data[curOut][columns[q]],
                         helper.inputData[columns[q]] >>]
            /\ \A c \in 1..Len(calls) :
                 calls[c].size = calls[c].lastRhs - calls[c].firstRhs + 1

\* the adjoint of every input after a reverse replay of the whole tape seeded
\* with value on the output RowVar: value * d RowVar / d input
ChainReplayed ==
  \A value \in 1..MaxCoef :
    (last.op = "evaluate" /\ last.pre.tape.adjoints
                               = [k \in {vals[RowVar].id} |-> value]) =>
      /\ err = "none"
      /\ \A i \in host.inputs :
           Get(tape.adjoints, i) = value * Get(host.deriv[RowVar], i)

\* C7: of a split row every statement after the first has as first operand the
\* identifier of the previous statement of the chain with coefficient 1 (a new
\* identifier per link under the linear policy, the same identifier under the
\* reuse policy), and reverse replay of the chain with adjoint a on the final
\* identifier adds a * J[i][j] to the adjoint of every input j.
C7_ChainAccumulates ==
  /\ Finished =>
       \A curOut \in 1..Len(last.rows) :
         \A c \in 2..Len(last.rows[curOut]) :
           LET call == last.rows[curOut][c]
           IN  /\ call.staggered
               /\ call.previous = last.rows[curOut][c - 1].identifier
               /\ tape.rhsIds[call.firstRhs] = call.previous
               /\ tape.passiveVals[PassiveOf(call.firstRhs)] = 1
               /\ call.identifier = IF cfg.linear THEN call.previous + 1
                                    ELSE call.previous
  /\ host.width > MaxArgumentSize => ChainReplayed

\* C8: every storeManual call of doPreaccumulation passes an operand count
\* that is at least 1, indexes an entry of jacobianExpressions
\* (0 .. MaxArgumentSize - 1) and is stored in ArgumentSize without wrap.
C8_OperandBound ==
  Finished =>
    \A curOut \in 1..Len(last.rows) :
      \A c \in 1..Len(last.rows[curOut]) :
        LET call == last.rows[curOut][c]
        IN  /\ call.operands >= 1
            /\ call.operands <= MaxArgumentSize - 1
            /\ call.size = call.operands
            /\ tape.stmts[call.stmt].handle = [kind |-> "jac", size |-> call.operands]
            /\ tape.stmts[call.stmt].nPassive = call.operands

\* C36: the passive-argument count StatementInputTag is carried only by the
\* statements registerInput pushed under the linear policy (the first
\* NumInputs statements of the tape); no statement stored for the row or
\* emitted by storeManual in doPreaccumulation carries it.
C36_InputTagOnlyInputs ==
  /\ \A k \in 1..Len(tape.stmts) :
       tape.stmts[k].nPassive = StatementInputTag =>
         /\ cfg.linear
         /\ k <= NumInputs
         /\ tape.stmts[k].handle = InputHandle
  /\ Finished =>
       \A curOut \in 1..Len(last.rows) :
         \A c \in 1..Len(last.rows[curOut]) :
           tape.stmts[last.rows[curOut][c].stmt].nPassive # StatementInputTag

\* C9: an output whose Jacobian row is zero gets no statement and its
\* identifier is released through destroyIdentifier, so it is passive after
\* finish; an output with nonzero entries ends with the identifier of the last
\* statement of its chain.
C9_ZeroRows ==
  Finished =>
    \A curOut \in 1..Len(last.rows) :
      LET value == helper.outputValues[curOut]
          old   == last.pre.vals[value].id
      IN  IF NonZeroColumns(curOut) = <<>>
            THEN /\ last.rows[curOut] = <<>>
                 /\ vals[value].id = 0
                 /\ ~cfg.linear =>
                      \E q \in 1..Len(tape.freeList) : tape.freeList[q] = old
            ELSE /\ last.rows[curOut] # <<>>
                 /\ vals[value].id
                      = last.rows[curOut][Len(last.rows[curOut])].identifier
                 /\ vals[value].id # 0

\* C9 witness: finish with one output whose row is zero, which was active and
\* is passive now, and one output whose row was split in two statements
C9_Witness ==
  /\ Finished
  /\ \E a \in 1..2, b \in 1..2 :
       /\ NonZeroColumns(a) = <<>>
       /\ last.pre.vals[helper.outputValues[a]].id # 0
       /\ vals[helper.outputValues[a]].id = 0
       /\ Len(last.rows[b]) = 2

\* the Jacobian entries of a storeManual call: its operands without the
\* continuation operand
JacobianEntries(call) == call.operands - (IF call.staggered THEN 1 ELSE 0)

\* the entries of the row of output curOut still left before its statement c
EntriesLeft(curOut, c) ==
  Len(NonZeroColumns(curOut))
    - Sum([k \in 1..(c - 1) |-> JacobianEntries(last.rows[curOut][k])])

\* C27: a row with n <= MaxArgumentSize nonzero entries is emitted as one
\* statement with n operands; of a row with n > MaxArgumentSize entries the
\* first statement holds MaxArgumentSize - 1 entries, every later statement
\* with more than MaxArgumentSize entries still left holds MaxArgumentSize - 2
\* entries and the continuation operand, and the last statement holds all
\* entries left and the continuation operand; every statement is followed by
\* as many pushed records as it has operands.
C27_StaggeringRule ==
  Finished =>
    \A curOut \in 1..Len(last.rows) :
      LET calls == last.rows[curOut]
          n     == Len(NonZeroColumns(curOut))
      IN  /\ n = 0 => calls = <<>>
          /\ (0 < n /\ n <= MaxArgumentSize) =>
               /\ Len(calls) = 1
               /\ ~calls[1].staggered
               /\ calls[1].operands = n
          /\ n > MaxArgumentSize =>
               /\ Len(calls) >= 2
               /\ ~calls[1].staggered
               /\ calls[1].operands = MaxArgumentSize - 1
               /\ \A c \in 2..Len(calls) :
                    /\ calls[c].staggered
                    /\ IF EntriesLeft(curOut, c) > MaxArgumentSize
                         THEN /\ c < Len(calls)
                              /\ JacobianEntries(calls[c]) = MaxArgumentSize - 2
                         ELSE /\ c = Len(calls)
                              /\ JacobianEntries(calls[c]) = EntriesLeft(curOut, c)
          /\ \A c \in 1..Len(calls) :
               calls[c].lastRhs - calls[c].firstRhs + 1 = calls[c].operands

\* C27 witness: a row of 2 * MaxArgumentSize entries was emitted in three
\* statements
C27_Witness ==
  /\ Finished
  /\ \E curOut \in 1..Len(last.rows) :
       /\ Len(NonZeroColumns(curOut)) = 2 * MaxArgumentSize
       /\ Len(last.rows[curOut]) = 3
       /\ JacobianEntries(last.rows[curOut][2]) = MaxArgumentSize - 2
       /\ JacobianEntries(last.rows[curOut][3]) = 3

----------------------------------------------------------------------------
(* Repeated and nested preaccumulation: the host program registers inputs   *)
(* and runs up to MaxCycles start / finish cycles with one helper; a second *)
(* helper may enclose the first cycle (its start precedes the start of the  *)
(* cycle and its finish follows the finish of the cycle).                   *)

\* start / finish cycles of one helper
MaxCycles == 2

\* the argument lists of start: every value the region may read, in two orders
InputLists == {AllVars, <<3, 2, 1>>}

\* the argument lists of finish: every value a region may assign, in two orders
CycleOutputs == {<<2, 3>>, <<3, 2>>}

Cycles == Len(SelectSeq(host.ops, LAMBDA op : op = "finish"))

NextCycles ==
  \/ \E v \in Vars :
       /\ host.region = "none" /\ host.nested = "none" /\ host.stores = 0
       /\ \A w \in Vars : (w < v) = (vals[w].id # 0)
       /\ RegisterInput(v)
  \/ /\ host.region = "none" /\ host.nested = "none"
     /\ \E v \in Vars : vals[v].id # 0
     /\ StartOuter(AllVars)
  \/ \E inputs \in InputLists :
       /\ host.region # "open" /\ host.nested # "closed" /\ Cycles < MaxCycles
       /\ \E v \in Vars : vals[v].id # 0
       /\ host.nested = "open" => (Cycles = 0 /\ inputs = host.outerInputs)
       /\ Start(inputs)
  \/ \E lhs \in Vars \ {1}, terms \in Exprs :
       /\ host.region = "open" /\ host.stores < MaxStmts
       /\ Store(lhs, terms)
  \/ \E storeAdjoints \in BOOLEAN, outputs \in CycleOutputs :
       /\ host.region = "open"
       /\ Finish(storeAdjoints, outputs)
  \/ \E storeAdjoints \in BOOLEAN :
       /\ host.region = "closed" /\ host.nested = "open"
       /\ FinishOuter(storeAdjoints)

SpecCycles == Init /\ [][NextCycles]_vars

----------------------------------------------------------------------------
(* Properties of repeated and nested preaccumulation                       *)

\* the Jacobian of the statements recorded since start, for the outputs and
\* inputs helper h holds
RegionJacobian(h) ==
  [i \in 1..Len(h.outputData) |->
     [j \in 1..Len(h.inputData) |->
        IF \E q \in 1..(j - 1) : h.inputData[q] = h.inputData[j] THEN 0
        ELSE Get(host.rderiv[h.outputValues[i]], h.inputData[j])]]

\* C11: a second start / finish over a region that contains the statements a
\* first start / finish emitted, with the same inputs and outputs, completes
\* and computes the Jacobian the region had before any preaccumulation (which
\* is the Jacobian the first finish computed), under both identifier policies.
C11_Idempotence ==
  last.op = "finishOuter" =>
    /\ err = "none"
    /\ last.computed.data = RegionJacobian(host.outer)
    /\ last.computed.data = last.inner.data

\* C12: start on an active tape leaves in inputData the identifiers of the
\* given inputs that are not 0, in argument order, outputData and outputValues
\* empty and startPos at the current position, whatever an earlier cycle
\* left; a finish that returns leaves every per row counter at 0, and the
\* counters it read are the numbers of nonzero entries of the rows of the
\* Jacobian of its own region.
C12_HelperReuse ==
  /\ (last.op = "start" /\ tape.active) =>
       /\ helper.inputData = ActiveIdentifiers(vals, last.inputs)
       /\ helper.outputData = <<>>
       /\ helper.outputValues = <<>>
       /\ helper.startPos = getPosition(tape)
  /\ (last.op = "finish" /\ err = "none") =>
       /\ \A i \in 1..Len(helper.jacobie.nonZerosRow) : helper.jacobie.nonZerosRow[i] = 0
       /\ Len(helper.jacobie.nonZerosRow) = Len(helper.outputData)
       /\ last.computed.data = RegionJacobian(helper)
       /\ \A i \in 1..Len(helper.outputData) :
            last.computed.nonZerosRow[i] = CountNonZeros(last.computed.data[i])

\* C12 witness: the start of a second cycle, on a helper that holds the
\* inputs and an output of the first cycle, whose row had a nonzero entry, with
\* the inputs given in another order
C12_Witness ==
  /\ last.op = "start"
  /\ Cycles = 1
  /\ Len(last.pre.helper.inputData) >= 2
  /\ last.pre.helper.outputData # <<>>
  /\ \E i \in 1..Len(last.pre.helper.jacobie.data) :
       CountNonZeros(last.pre.helper.jacobie.data[i]) > 0
  /\ Len(helper.inputData) >= 2
  /\ helper.inputData # last.pre.helper.inputData
  /\ helper.outputData = <<>>

----------------------------------------------------------------------------
(* Recording under the configurations.  The host program makes up to        *)
(* MaxRecordCalls recording calls in any order on a tape built with either  *)
(* identifier policy and with the zero-identifier check and the assign       *)
(* optimisation switched on or off.                                          *)

MaxRecordCalls == 3

RecordConfigs ==
  { [DefaultConfig(isLinear) EXCEPT !.CheckZeroIndex = checkZeroIndex,
                                    !.AssignOptimization = assignOptimization] :
      isLinear \in BOOLEAN, checkZeroIndex \in BOOLEAN,
      assignOptimization \in BOOLEAN }

InitRecord ==
  /\ cfg \in RecordConfigs
  /\ tape = PrimalValueBaseTape
  /\ vals = InitialValues
  /\ helper = PreaccumulationHelper
  /\ host = NewHost(InitialValues)
  /\ last = [op |-> "none", pre |-> [tape |-> PrimalValueBaseTape,
                                     vals |-> InitialValues,
                                     helper |-> PreaccumulationHelper]]
  /\ err = "none"

NextRecord ==
  /\ host.calls < MaxRecordCalls
  /\ \/ \E v \in Vars : RegisterInput(v)
     \/ \E v \in Vars : RegisterExternalFunctionOutput(v)
     \/ \E lhs \in Vars, terms \in Exprs : Store(lhs, terms)
     \/ \E lhs \in Vars, rhs \in Vars : StoreActive(lhs, rhs)
     \/ tape.active /\ SetPassive
     \/ ~tape.active /\ SetActive

SpecRecord == InitRecord /\ [][NextRecord]_vars

\* the numbers of records the last call pushed into the four layers
Pushed ==
  [ stmt |-> Len(tape.stmts) - Len(last.pre.tape.stmts),
    rhs  |-> Len(tape.rhsIds) - Len(last.pre.tape.rhsIds),
    pas  |-> Len(tape.passiveVals) - Len(last.pre.tape.passiveVals),
    con  |-> Len(tape.constVals) - Len(last.pre.tape.constVals) ]

\* C19: in store, for every expression and for the zero-identifier check on and
\* off, the number of records pushed into each layer equals the number reserved
\* for it immediately before (1 statement, MaxActiveArgs rhs identifiers,
\* MaxActiveArgs - activeArguments passive values, MaxConstantArgs constants),
\* and no push exceeds its reservation.
C19_ReservationCoversPushes ==
  last.op \in {"store", "storeActive"} => Pushed = last.reserved

\* C15: store(lhs, rhs) with rhs an active value records no statement and makes
\* lhs share the identifier of rhs only on an active tape under the linear
\* policy with the assign optimisation enabled; in every other active tape case
\* it is the full statement store; on an inactive tape it frees the identifier
\* of lhs and records nothing; in all cases lhs receives the value of rhs.
C15_CopyAssignment ==
  last.op = "storeActive" =>
    LET pre == last.pre
        lhs == last.lhs
        rhs == last.rhs
        full == store(pre.tape, pre.vals, lhs, <<[v |-> rhs]>>)
    IN  /\ vals[lhs].value = pre.vals[rhs].value
        /\ \A v \in Vars \ {lhs} : vals[v] = pre.vals[v]
        /\ IF ~pre.tape.active
              THEN /\ Pushed = NoReservation
                   /\ vals[lhs].id = 0
                   /\ tape = freeIndex(pre.tape, pre.vals[lhs].id).t
              ELSE IF cfg.linear /\ cfg.AssignOptimization
                THEN /\ tape = pre.tape
                     /\ vals[lhs].id = pre.vals[rhs].id
                ELSE /\ tape = full.t
                     /\ vals = full.vals
                     /\ (cfg.CheckZeroIndex /\ pre.vals[rhs].id # 0) =>
                          /\ Pushed = [stmt |-> 1, rhs |-> 1, pas |-> 0, con |-> 0]
                          /\ tape.rhsIds[Len(tape.rhsIds)] = pre.vals[rhs].id
                          /\ vals[lhs].id # 0
                          /\ lhs # rhs => vals[lhs].id # vals[rhs].id

C15_Witness ==
  /\ last.op = "storeActive"
  /\ cfg.linear /\ cfg.AssignOptimization /\ last.pre.tape.active
  /\ last.lhs # last.rhs
  /\ last.pre.vals[last.rhs].id # 0
  /\ last.pre.vals[last.lhs].id # last.pre.vals[last.rhs].id
  /\ vals[last.lhs].id = vals[last.rhs].id
  /\ tape.stmts = last.pre.tape.stmts

\* what C16 states of the identifier, the primal slot and the pushed statement
InputRegistered ==
  LET pre == last.pre
      id  == vals[last.v].id
      previous == Get(pre.tape.primals, id)
  IN  /\ id = getLargestAssignedIndex(pre.tape) + 1
      /\ getLargestAssignedIndex(tape) = id
      /\ \A i \in 1..Len(pre.tape.freeList) : pre.tape.freeList[i] # id
      /\ tape.freeList = IF cfg.linear \/ pre.vals[last.v].id = 0
                           THEN pre.tape.freeList
                           ELSE Append(pre.tape.freeList, pre.vals[last.v].id)
      /\ Get(tape.primals, id) = pre.vals[last.v].value
      /\ vals[last.v].value = pre.vals[last.v].value
      /\ Pushed.rhs = 0 /\ Pushed.pas = 0 /\ Pushed.con = 0
      /\ IF cfg.linear
            THEN /\ Pushed.stmt = 1
                 /\ tape.stmts[Len(tape.stmts)].nPassive = StatementInputTag
                 /\ last.pushed = << [ index |-> id,
                                       numberOfPassiveArguments |-> StatementInputTag,
                                       oldPrimalValue |-> previous ] >>
            ELSE Pushed.stmt = 0 /\ last.pushed = <<>>

----------------------------------------------------------------------------
(* Evaluation under the configurations.  The host program registers x1 and  *)
(* x2, records up to MaxEvalStmts statements (expressions, some with a       *)
(* non-finite coefficient, and manual statements), may take a position       *)
(* after the first one, seeds one gradient and makes one evaluation call;    *)
(* or it assigns expressions on the forward mode tape.  The configurations   *)
(* are the default one and those with one setting changed.                   *)

MaxEvalStmts == 2

MaxForwardCalls == 3

EvalConfigs ==
  UNION {
    { DefaultConfig(isLinear),
      [DefaultConfig(isLinear) EXCEPT !.IgnoreInvalidJacobies = TRUE],
      [DefaultConfig(isLinear) EXCEPT !.SkipZeroAdjointEvaluation = FALSE],
      [DefaultConfig(isLinear) EXCEPT !.StatementEvaluator = "Reverse"],
      [DefaultConfig(isLinear) EXCEPT !.StatementEvaluator = "FunctionHandleFactory"] } :
    isLinear \in BOOLEAN }

\* the expressions of Exprs and x + c * y with a non-finite coefficient on x
EvalExprs ==
  Exprs \cup {<<[c |-> NotANumber, v |-> p[1]], [c |-> MaxCoef, v |-> p[2]]>> :
                p \in {q \in Vars \X Vars : q[1] < q[2]}}

\* the rows of the manual statements: Jacobians of x1 and x2
ManualRows ==
  { <<[c |-> MaxCoef, v |-> 1]>>,
    <<[c |-> 1, v |-> 1], [c |-> MaxCoef, v |-> 2]>>,
    <<[c |-> NotANumber, v |-> 1], [c |-> MaxCoef, v |-> 2]>> }

InitEval ==
  /\ cfg \in EvalConfigs
  /\ tape = PrimalValueBaseTape
  /\ vals = InitialValues
  /\ helper = PreaccumulationHelper
  /\ host = NewHost(InitialValues)
  /\ last = [op |-> "none", pre |-> [tape |-> PrimalValueBaseTape,
                                     vals |-> InitialValues,
                                     helper |-> PreaccumulationHelper]]
  /\ err = "none"

Recording == host.calls >= 2 /\ host.phase = "record"

\* the positions the host program holds: the current one and the one it took
HeldPositions ==
  {getPosition(tape)} \cup (IF host.hasPos THEN {host.pos} ELSE {})

NextEval ==
  \/ host.calls < 2 /\ host.fcalls = 0 /\ RegisterInput(host.calls + 1)
  \/ \E lhs \in Vars \ {1}, terms \in EvalExprs :
       Recording /\ host.stores < MaxEvalStmts /\ Store(lhs, terms)
  \/ \E row \in ManualRows :
       Recording /\ host.stores < MaxEvalStmts /\ StoreManual(NumVars, row)
  \/ Recording /\ host.stores = 1 /\ ~host.hasPos /\ GetPosition
  \/ \E v \in Vars :
       Recording /\ host.stores > 0 /\ vals[v].id # 0 /\ SetGradient(v, 1)
  \/ \E end \in {ZeroPosition} \cup (HeldPositions \ {getPosition(tape)}) :
       host.phase = "seeded" /\ Evaluate(end)
  \/ /\ host.phase = "seeded" /\ cfg.StatementEvaluator # "FunctionHandleFactory"
     /\ EvaluateForward(ZeroPosition)
  \/ host.phase = "seeded" /\ EvaluatePrimal(ZeroPosition)
  \/ \E from \in HeldPositions :
       host.phase = "seeded" /\ EvaluateKeepState(from, ZeroPosition)
  \/ \E v \in Vars :
       /\ host.calls = 0 /\ host.fcalls < MaxForwardCalls
       /\ host.fvals[v].gradient = ForwardInitIdentifier
       /\ SetForwardGradient(v, 1)
  \/ \E lhs \in Vars, terms \in EvalExprs :
       /\ host.calls = 0 /\ host.fcalls \in 1..(MaxForwardCalls - 1)
       /\ StoreForward(lhs, terms)
  \/ \E lhs \in Vars, rhs \in Vars :
       /\ host.calls = 0 /\ host.fcalls \in 1..(MaxForwardCalls - 1)
       /\ lhs # rhs
       /\ StoreForwardActive(lhs, rhs)
  \/ \E lhs \in Vars :
       /\ host.calls = 0 /\ host.fcalls \in 1..(MaxForwardCalls - 1)
       /\ StoreForwardPassive(lhs, MaxCoef)

SpecEval == InitEval /\ [][NextEval]_vars

----------------------------------------------------------------------------
(* Properties of evaluation under the configurations                        *)

UnsupportedDirection ==
  { "ReverseStatementEvaluator does not support forward evaluation calls.",
    "ReverseStatementEvaluator does not support primal evaluation calls.",
    "Forward evaluation of jacobian statement not possible.",
    "Primal evaluation of jacobian statement not possible.",
    "Primal handles are not supported by this handle factory." }

\* statement k of tape t is handed to the statement evaluator by a replay
IsCalled(t, k) == ~(cfg.linear /\ t.stmts[k].nPassive = StatementInputTag)

\* the forward or primal replay of the last call, stopped after statement k
ReplayUpTo(k) ==
  IF last.op = "evaluateForward"
    THEN evaluateForward(last.pre.tape, last.from, [last.to EXCEPT !.stmt = k], "noop")
    ELSE evaluatePrimal(last.pre.tape, last.from, [last.to EXCEPT !.stmt = k], "noop")

\* C14: a forward or primal call through ReverseStatementEvaluator, a forward or
\* primal evaluation of a manual statement and a primal call through
\* FunctionHandleFactory end in an error, and the failing call changes no
\* adjoint, tangent or primal entry and no replay cursor: the tape and the
\* cursors are those of the replay of the statements before it.
C14_UnsupportedDirectionFatal ==
  last.op \in {"evaluateForward", "evaluatePrimal"} =>
    LET t == last.pre.tape
        range == (last.from.stmt + 1)..last.to.stmt
        unsupported ==
          {k \in range : /\ IsCalled(t, k)
                         /\ \/ cfg.StatementEvaluator = "Reverse"
                            \/ IsManual(t.stmts[k])
                            \/ /\ cfg.StatementEvaluator = "FunctionHandleFactory"
                               /\ last.op = "evaluatePrimal"}
    IN  /\ (unsupported # {}) = (err \in UnsupportedDirection)
        /\ err \in UnsupportedDirection =>
             LET k == last.visits[Len(last.visits)]
                 before(prefix) ==
                   /\ prefix.r.err = "none"
                   /\ tape = prefix.t
                   /\ last.cursors = [con |-> prefix.r.con, pas |-> prefix.r.pas,
                                      rhs |-> prefix.r.rhs]
             IN  /\ \A j \in unsupported : k <= j
                 /\ k \in unsupported
                 /\ before(ReplayUpTo(k - 1))

\* the forward replay met a manual statement after it had assigned the tangent
\* of an expression statement
C14_Witness ==
  /\ last.op = "evaluateForward"
  /\ err = "Forward evaluation of jacobian statement not possible."
  /\ Len(last.visits) >= 2
  /\ tape.adjoints # last.pre.tape.adjoints

\* the identifiers that were handed out
AssignedIdentifiers(t) == (MaxArgumentSize + 1)..getLargestAssignedIndex(t)

\* what C17 states of a call of evaluateKeepState that returned
StateKept ==
  LET pre == last.pre.tape
      n   == last.from.stmt
  IN  /\ tape.stmts = pre.stmts
      /\ tape.rhsIds = pre.rhsIds
      /\ tape.passiveVals = pre.passiveVals
      /\ tape.constVals = pre.constVals
      /\ \A id \in AssignedIdentifiers(pre) :
           Get(tape.primals, id) = Get(pre.primals, id)
      /\ last.visits = IF cfg.linear THEN Descending(n, 1)
                        ELSE Descending(n, 1) \o Ascending(1, n)

\* C17 as stated: after evaluateKeepState(start, end), for every range, the
\* statements are all still present and the primal entry of every identifier
\* equals its value before the call; the reverse replay runs from start to end
\* and, under the reuse policy only, a primal replay from end to start follows.
C17_KeepStateAnyRange ==
  (last.op = "evaluateKeepState" /\ err = "none") => StateKept

\* C17 amended: as above under the linear policy, and under the reuse policy
\* when start is the position the tape is at, so that the primal vector holds
\* the values of position start.
C17_KeepStateFromCurrent ==
  ( /\ last.op = "evaluateKeepState" /\ err = "none"
    /\ cfg.linear \/ last.from = getPosition(last.pre.tape) ) => StateKept

\* under the reuse policy the reverse replay rolled a primal entry back and the
\* primal replay restored it
C17_Witness ==
  /\ last.op = "evaluateKeepState" /\ err = "none"
  /\ ~cfg.linear
  /\ last.from = getPosition(last.pre.tape)
  /\ Len(tape.stmts) = MaxEvalStmts
  /\ \E k \in 1..Len(tape.stmts) :
       tape.stmts[k].oldPrimal # Get(tape.primals, tape.stmts[k].lhs)

\* every coefficient recorded on tape t is finite
FiniteCoefficients(t) ==
  /\ \A k \in 1..Len(t.constVals) : isTotalFinite(t.constVals[k])
  /\ \A k \in 1..Len(t.passiveVals) : isTotalFinite(t.passiveVals[k])

\* reverse evaluation of statement k without the fast path: acc holds the
\* adjoint vector and the cursors after the statements above k
ReferenceStatement(t, from, acc, k) ==
  LET stmt == t.stmts[k]
      lhs  == IF cfg.linear THEN LinearAdjointPos(from, k) ELSE stmt.lhs
      lhsAdjoint == Get(acc.adj, lhs)
      cleared == Put(acc.adj, lhs, 0)
      manual(n) ==
        LET update(adj, i) ==
              Put(adj, t.rhsIds[acc.rhs - n + i],
                  Plus(Get(adj, t.rhsIds[acc.rhs - n + i]),
                       Times(t.passiveVals[acc.pas - n + i], lhsAdjoint)))
        IN  [ adj |-> FoldUp(update, cleared, 1, n),
              con |-> acc.con, pas |-> acc.pas - n, rhs |-> acc.rhs - n ]
      expression(n, constants) ==
        LET update(adj, i) ==
              Put(adj, t.rhsIds[acc.rhs - n + i],
                  Plus(Get(adj, t.rhsIds[acc.rhs - n + i]),
                       Times(IF constants = 0 THEN 1
                             ELSE t.constVals[acc.con - constants + i], lhsAdjoint)))
        IN  [ adj |-> FoldUp(update, cleared, 1, n),
              con |-> acc.con - constants,
              pas |-> acc.pas - stmt.nPassive,
              rhs |-> acc.rhs - n ]
  IN  IF ~IsCalled(t, k) THEN acc
      ELSE IF IsManual(stmt) THEN manual(stmt.nPassive)
      ELSE expression(MaxActiveArgs(stmt.handle), MaxConstantArgs(stmt.handle))

\* reverse evaluation of the statements from.stmt, .., to.stmt + 1 of tape t
\* without the fast path
ReferenceReverse(t, from, to) ==
  LET step(acc, k) == ReferenceStatement(t, from, acc, k)
  IN  FoldDown(step,
               [adj |-> t.adjoints, con |-> from.con, pas |-> from.pas, rhs |-> from.rhs],
               to.stmt + 1, from.stmt)

\* C20: with SkipZeroAdjointEvaluation enabled the reverse replay of a
\* statement whose output adjoint is zero changes no adjoint and moves the
\* cursors as the non-skipped path does, for expression and manual statements;
\* for finite coefficients the adjoint vector and the cursors after the reverse
\* replay of any range are those of the replay without the fast path.
C20_FastPathPreserving ==
  (last.op = "evaluate" /\ err = "none" /\ FiniteCoefficients(last.pre.tape)) =>
    LET same(ref) ==
          /\ Normalize(tape.adjoints) = Normalize(ref.adj)
          /\ last.cursors = [con |-> ref.con, pas |-> ref.pas, rhs |-> ref.rhs]
          /\ last.cursors = [con |-> last.to.con, pas |-> last.to.pas,
                             rhs |-> last.to.rhs]
    IN  same(ReferenceReverse(last.pre.tape, last.from, last.to))

\* the fast path is enabled, the last statement is a manual statement whose
\* output adjoint is zero, and the statement before it passed the seed on
C20_Witness ==
  /\ last.op = "evaluate" /\ err = "none" /\ FiniteCoefficients(last.pre.tape)
  /\ cfg.SkipZeroAdjointEvaluation
  /\ last.to = ZeroPosition
  /\ Len(tape.stmts) >= 2
  /\ IsManual(tape.stmts[Len(tape.stmts)])
  /\ ~IsManual(tape.stmts[Len(tape.stmts) - 1])
  /\ Get(last.pre.tape.adjoints,
         IF cfg.linear THEN last.from.idx
         ELSE tape.stmts[Len(tape.stmts)].lhs) = 0
  /\ \E i \in host.inputs : Get(tape.adjoints, i) = MaxCoef

\* the cursors of a position or of a replay record
Cursors(x) == [con |-> x.con, pas |-> x.pas, rhs |-> x.rhs]

\* store has recorded a statement
StatementStored ==
  /\ last.op = "store"
  /\ Len(tape.stmts) = Len(last.pre.tape.stmts) + 1

\* the statement store has recorded, replayed alone: forward and primal
\* replay from the position before it, reverse replay with output adjoint
\* lhsAdjoint from the position after it
StoredStatementCursors(lhsAdjoint) ==
  LET stmt   == tape.stmts[Len(tape.stmts)]
      before == getPosition(last.pre.tape)
      after  == getPosition(tape)
      agree(fwd, pri, rev, back) ==
        /\ after.con - before.con = MaxConstantArgs(stmt.handle)
        /\ after.pas - before.pas = stmt.nPassive
        /\ after.rhs - before.rhs = MaxActiveArgs(stmt.handle)
        /\ Cursors(fwd) = Cursors(after)
        /\ Cursors(pri) = Cursors(after)
        /\ Cursors(rev) = Cursors(before)
        /\ Cursors(back) = Cursors(before)
      replayed(fwd) ==
        agree(fwd,
              statementEvaluatePrimalFull(
                tape, StartReplay(tape, tape.primals, before), stmt.handle,
                stmt.nPassive).r,
              statementEvaluateReverseFull(
                tape, StartReplay(tape, tape.primals, after), stmt.handle,
                lhsAdjoint, stmt.nPassive),
              statementEvaluateReverseFull(tape, fwd, stmt.handle, lhsAdjoint,
                                           stmt.nPassive))
  IN  replayed(statementEvaluateForwardFull(
                 tape, StartReplay(tape, tape.primals, before), stmt.handle,
                 stmt.nPassive).r)

\* C28: for every statement store records, forward and primal replay advance
\* the constant cursor by MaxConstantArgs, the passive value cursor by the
\* recorded passive count and the rhs identifier cursor by MaxActiveArgs, the
\* numbers of records store pushed, and reverse replay retreats by the same
\* amounts, so forward then reverse over the statement returns the cursors;
\* a replay of a range that completes ends with the cursors on the boundary
\* of the range.
C28_CursorsAgree ==
  /\ StatementStored => \A lhsAdjoint \in {0, 1} : StoredStatementCursors(lhsAdjoint)
  /\ (last.op \in {"evaluate", "evaluateForward", "evaluatePrimal"} /\ err = "none")
       => last.cursors = Cursors(last.to)

\* C28 witness: a forward replay has completed over a range with an
\* expression statement that has a passive operand
C28_Witness ==
  /\ last.op = "evaluateForward" /\ err = "none"
  /\ last.from = ZeroPosition
  /\ last.cursors = Cursors(getPosition(tape))
  /\ \E k \in 1..Len(tape.stmts) :
       /\ tape.stmts[k].handle.kind = "expr"
       /\ tape.stmts[k].nPassive = 1
       /\ tape.stmts[k].handle.size = 2

\* the rhs identifier records of tape t that hold a passive slot number and
\* not an identifier: every identifier is larger than MaxArgumentSize
PassiveSlotNumbers(t) ==
  {t.rhsIds[p] : p \in 1..Len(t.rhsIds)} \cap (0..(MaxArgumentSize - 1))

\* a reverse replay has completed over expression statements only
ReverseOverExpressions ==
  /\ last.op = "evaluate" /\ err = "none"
  /\ \A k \in 1..Len(last.pre.tape.stmts) : ~IsManual(last.pre.tape.stmts[k])

\* reverse replay changes no adjoint entry of an identifier that was not
\* recorded as an operand or an output
UnrelatedIdentifiersKept ==
  ReverseOverExpressions =>
    \A i \in DOMAIN last.pre.tape.adjoints :
      ( /\ i > MaxArgumentSize
        /\ \A p \in 1..Len(tape.rhsIds) : tape.rhsIds[p] # i
        /\ \A k \in 1..Len(tape.stmts) :
             i # (IF cfg.linear THEN LinearAdjointPos(last.from, k)
                  ELSE tape.stmts[k].lhs) )
        => Get(tape.adjoints, i) = Get(last.pre.tape.adjoints, i)

\* C29: reverse replay of expression statements changes the adjoint entries
\* of only the operands that had a nonzero identifier when the statement was
\* recorded: an operand recorded as passive, stored as a passive slot number,
\* causes no adjoint entry to change, and the adjoint entry of the passive
\* sentinel 0 keeps its value.
C29_OnlyActiveOperands ==
  ReverseOverExpressions =>
    \A slot \in PassiveSlotNumbers(last.pre.tape) \cup {0} :
      Get(tape.adjoints, slot) = Get(last.pre.tape.adjoints, slot)

\* the entries of the primal vectors p and q from index lo on are equal
SamePrimalsFrom(p, q, lo) ==
  \A i \in (DOMAIN p) \cup (DOMAIN q) : i >= lo => Get(p, i) = Get(q, i)

\* C33: evaluate and evaluateForward under the reuse policy replay on a copy
\* of the primal vector, which is the same after the call as before; under
\* the linear policy they replay on the primal vector of the tape and change
\* at most its entries below MaxArgumentSize, the slots of passive values.
C33_ReplayOnCopy ==
  last.op \in {"evaluate", "evaluateForward"} =>
    IF cfg.linear
      THEN SamePrimalsFrom(tape.primals, last.pre.tape.primals, MaxArgumentSize)
      ELSE /\ SamePrimalsFrom(tape.primals, last.pre.tape.primals, 0)
           /\ tape.primalSize = last.pre.tape.primalSize

\* C33 witness: under the reuse policy a reverse replay has passed a
\* statement that overwrote the value of its output, whose primal entry the
\* replay sets back on the copy; under the linear policy a replay has copied
\* a passive value to slot 0
C33_Witness ==
  /\ last.op = "evaluate" /\ err = "none"
  /\ IF cfg.linear
       THEN Get(tape.primals, 0) # Get(last.pre.tape.primals, 0)
       ELSE \E k \in 1..Len(tape.stmts) :
              /\ k \in {last.visits[j] : j \in 1..Len(last.visits)}
              /\ tape.stmts[k].oldPrimal # Get(tape.primals, tape.stmts[k].lhs)

\* the identifier the last call assigned to its output
OutputIdentifier ==
  IF last.op \in {"store", "storeManual"} THEN vals[last.lhs].id
  ELSE vals[last.v].id

\* C35: after store, registerInput and storeManual (also with an output whose
\* identifier is 0) the identifier assigned to the output is smaller than the
\* size the primal vector has when the primal entry of the output is read
\* and written.
C35_PrimalAccessInBounds ==
  last.op \in {"store", "registerInput", "storeManual"} =>
    OutputIdentifier < tape.primalSize

\* d y / d input i as the policy for non-finite coefficients gives it
ExpectedAdjoint(y, i) ==
  IF cfg.IgnoreInvalidJacobies THEN Get(host.sderiv[y], i) ELSE Get(host.deriv[y], i)

ExpectedTangent(y, i) ==
  IF cfg.IgnoreInvalidJacobies THEN Get(host.sderiv[y], i) ELSE Get(host.tderiv[y], i)

\* the gradient the forward mode tape gives lhs = c_1 * x_1 + .. + c_n * x_n
ExpectedGradient(fvs, terms) ==
  Sum([k \in 1..Len(terms) |->
         IF cfg.IgnoreInvalidJacobies /\ ~isTotalFinite(terms[k].c) THEN 0
         ELSE Times(fvs[terms[k].v].gradient, terms[k].c)])

\* a reverse replay of the whole tape, seeded with 1 on y, left the expected
\* adjoint on every input
ReverseAsExpected ==
  \A y \in Vars :
    SeededOn(y, 1) =>
      \A i \in host.inputs : Get(tape.adjoints, i) = ExpectedAdjoint(y, i)

\* a forward replay of the whole tape, seeded with 1 on the input x, left the
\* expected tangent on every active value
ForwardAsExpected ==
  \A x \in Vars :
    (SeededOn(x, 1) /\ host.deriv[x] = Unit(vals[x].id)) =>
      \A y \in Vars :
        vals[y].id # 0 => Get(tape.adjoints, vals[y].id) = ExpectedTangent(y, vals[x].id)

\* C13: with IgnoreInvalidJacobies enabled an operand whose coefficient is not
\* finite causes no update of any accumulator in reverse replay, in forward
\* replay and in the store of the forward mode tape, for expression statements
\* and for manual statements, while the other operands are updated as usual;
\* with the default setting the coefficient is propagated into the adjoint of
\* that operand (reverse) or the tangent of the output (forward) only.
C13_NonFinitePolicy ==
  /\ ( /\ last.op = "evaluate" /\ err = "none" /\ last.to = ZeroPosition
       /\ cfg.SkipZeroAdjointEvaluation ) => ReverseAsExpected
  /\ (last.op = "evaluateForward" /\ err = "none") => ForwardAsExpected
  /\ last.op = "forwardStore" =>
       host.fvals[last.lhs].gradient = ExpectedGradient(last.fpre, last.terms)

\* the passive value records pushed before statement k of tape t
PassiveRecordsBefore(t, k) ==
  Sum([j \in 1..(k - 1) |->
         IF t.stmts[j].handle.kind = "input" THEN 0 ELSE t.stmts[j].nPassive])

\* the tape holds a manual statement with a non-finite Jacobian
ManualNonFinite(t) ==
  \E k \in 1..Len(t.stmts) :
    /\ IsManual(t.stmts[k])
    /\ \E j \in 1..t.stmts[k].nPassive :
         ~isTotalFinite(t.passiveVals[PassiveRecordsBefore(t, k) + j])

\* the policy holds wherever no manual statement with a non-finite Jacobian
\* is replayed under the skip policy
NonFinitePolicyOfExpressions ==
  (cfg.IgnoreInvalidJacobies /\ ManualNonFinite(tape)) \/ C13_NonFinitePolicy

----------------------------------------------------------------------------
(* Parameters and swap.  The host program records on the tape, reads and    *)
(* writes its parameters and swaps it with a second tape, up to MaxTapeCalls *)
(* calls of which at most MaxParameterCalls are parameter calls.            *)

MaxTapeCalls == 6

MaxParameterCalls == 1

\* a size below every identifier, one between the identifiers and one beyond
\* the first chunk
ParameterValues == {0, MaxArgumentSize + 2, ChunkSize + 1}

ParameterCalls ==
  Len(SelectSeq(host.ops, LAMBDA op : op \in {"getParameter", "setParameter"}))

NextTapes ==
  /\ host.calls < MaxTapeCalls
  /\ \/ \E v \in Vars :
          /\ \A w \in Vars : (w < v) => vals[w].id # 0
          /\ vals[v].id = 0
          /\ RegisterInput(v)
     \/ \E terms \in Exprs : host.stores < 1 /\ Store(NumVars, terms)
     \/ \E v \in Vars : vals[v].id # 0 /\ SetGradient(v, 1)
     \/ \E parameter \in Options :
          ParameterCalls < MaxParameterCalls /\ GetParameter(parameter)
     \/ \E parameter \in Options, value \in ParameterValues :
          ParameterCalls < MaxParameterCalls /\ SetParameter(parameter, value)
     \/ Swap

SpecTapes == Init /\ [][NextTapes]_vars

\* what swap exchanges: the adjoint vector, the primal vector and the layers
Storage(t) ==
  [ adjoints |-> t.adjoints, adjointSize |-> t.adjointSize,
    primals |-> t.primals, primalSize |-> t.primalSize,
    stmts |-> t.stmts, rhsIds |-> t.rhsIds, passiveVals |-> t.passiveVals,
    constVals |-> t.constVals, capacity |-> t.capacity ]

\* C21 as stated: every parameter of the option set is read by getParameter
\* and written by setParameter without error.
C21_UniformAccess ==
  last.op \in {"getParameter", "setParameter"} => err = "none"

\* C21 amended: every parameter of the option set is read without error;
\* AdjointSize, PrimalSize and the four layer sizes are written without
\* error, the two vector sizes reading back as written; setParameter of
\* LargestIdentifier ends in the error "Tried to set a get only option." and
\* changes nothing on the tape.
C21_GetOnlyIdentifier ==
  /\ last.op = "getParameter" =>
       err = "none" /\ last.ret = getParameter(last.pre.tape, last.parameter)
  /\ (last.op = "setParameter" /\ last.parameter # "LargestIdentifier") =>
       /\ err = "none"
       /\ last.parameter \in {"AdjointSize", "PrimalSize"} =>
            getParameter(tape, last.parameter) = last.value
  /\ (last.op = "setParameter" /\ last.parameter = "LargestIdentifier") =>
       err = "Tried to set a get only option." /\ tape = last.pre.tape

\* LargestIdentifier was written on a tape that has assigned identifiers
C21_Witness ==
  /\ last.op = "setParameter" /\ last.parameter = "LargestIdentifier"
  /\ getLargestAssignedIndex(tape) > MaxArgumentSize
  /\ last.value # getLargestAssignedIndex(tape)

\* the index manager of tape t
IndexManager(t) == [count |-> t.count, freeList |-> t.freeList]

\* C31: setParameter(LargestIdentifier, v) raises an error for every v and
\* leaves the adjoint vector, the primal vector, every storage layer and the
\* index manager as they were; getParameter of AdjointSize and of PrimalSize
\* right after setParameter of it returns the value that was set.
C31_GetOnlyParameter ==
  last.op = "setParameter" =>
    /\ last.parameter = "LargestIdentifier" =>
         /\ err # "none"
         /\ Storage(tape) = Storage(last.pre.tape)
         /\ IndexManager(tape) = IndexManager(last.pre.tape)
    /\ last.parameter \in {"AdjointSize", "PrimalSize"} =>
         /\ err = "none"
         /\ getParameter(tape, last.parameter) = last.value

\* C31 witness: LargestIdentifier was set to 0 on a tape that holds a
\* statement and a seeded adjoint
C31_Witness ==
  /\ last.op = "setParameter" /\ last.parameter = "LargestIdentifier"
  /\ last.value = 0
  /\ tape.stmts # <<>>
  /\ \E i \in DOMAIN tape.adjoints : tape.adjoints[i] # 0

\* C22: after a.swap(b) the adjoint vector, the primal vector and the storage
\* layers of a are those b had before and vice versa, and a second swap gives
\* both tapes the contents they had before the first.
C22_SwapInvolution ==
  last.op = "swap" =>
    /\ Storage(tape) = Storage(last.other)
    /\ Storage(host.other) = Storage(last.pre.tape)
    /\ last.again =>
         /\ Storage(tape) = Storage(last.origin.tape)
         /\ Storage(host.other) = Storage(last.origin.other)

\* two consecutive swaps of tapes that both hold statements, with different
\* primal vectors and different adjoint vectors
C22_Witness ==
  /\ last.op = "swap" /\ last.again
  /\ tape.stmts # <<>> /\ host.other.stmts # <<>>
  /\ tape.primals # host.other.primals
  /\ tape.adjoints # host.other.adjoints

----------------------------------------------------------------------------
(* Properties of the forward mode tape                                      *)

\* the values other than lhs are as before the last store
OthersKept(lhs) == \A v \in Vars \ {lhs} : host.fvals[v] = last.fpre[v]

\* the coefficients of the last store and the values and gradients of its
\* operands are finite
FiniteOperands ==
  \A k \in 1..Len(last.terms) :
    /\ isTotalFinite(last.terms[k].c)
    /\ isTotalFinite(last.fpre[last.terms[k].v].value)
    /\ isTotalFinite(last.fpre[last.terms[k].v].gradient)

\* C23: ForwardEvaluation::store(lhs, rhs) sets the gradient of lhs to the
\* sum over the operands of rhs of coefficient * operand gradient, taken from
\* the gradients before the store, also when lhs is an operand of rhs; storing
\* an active value copies its value and gradient; storing a passive value sets
\* the gradient of lhs to zero; initIdentifier yields a zero gradient.  The
\* coefficients, values and gradients of the expression are finite.
C23_ForwardStore ==
  /\ host.fcalls = 0 => \A v \in Vars : host.fvals[v].gradient = 0
  /\ (last.op = "forwardStore" /\ FiniteOperands) =>
       /\ host.fvals[last.lhs].gradient =
            Sum([k \in 1..Len(last.terms) |->
                   last.terms[k].c * last.fpre[last.terms[k].v].gradient])
       /\ host.fvals[last.lhs].value =
            Sum([k \in 1..Len(last.terms) |->
                   last.terms[k].c * last.fpre[last.terms[k].v].value])
       /\ OthersKept(last.lhs)
  /\ last.op = "forwardStoreActive" =>
       host.fvals[last.lhs] = last.fpre[last.rhs] /\ OthersKept(last.lhs)
  /\ last.op = "forwardStorePassive" =>
       /\ host.fvals[last.lhs] = [value |-> last.rhs, gradient |-> 0]
       /\ OthersKept(last.lhs)

\* lhs is an operand of rhs, with a gradient that is not zero, next to another
\* operand with a gradient that is not zero
C23_Witness ==
  /\ last.op = "forwardStore" /\ FiniteOperands
  /\ Len(last.terms) = 2
  /\ \E k \in 1..2 : last.terms[k].v = last.lhs
  /\ \A k \in 1..2 : last.fpre[last.terms[k].v].gradient # 0
  /\ host.fvals[last.lhs].gradient # last.fpre[last.lhs].gradient

----------------------------------------------------------------------------
(* The adjoint interface.  The host program builds the object on an adjoint *)
(* vector of MaxIndex entries with vecDim components each and makes up to   *)
(* MaxAccessCalls calls in any order.                                       *)

MaxIndex == 3

MaxAccessCalls == 3

VecDims == {1, 2}

AdjointValues == {0, 1}

Jacobies == {2, -1}

Indexes == 1..MaxIndex

AdjointVectors(vecDim) == [Indexes -> [1..vecDim -> AdjointValues]]

InitInterface ==
  /\ cfg = DefaultConfig(TRUE)
  /\ tape = PrimalValueBaseTape
  /\ vals = InitialValues
  /\ helper = PreaccumulationHelper
  /\ \E vecDim \in VecDims : \E adjointVector \in AdjointVectors(vecDim) :
       host = [NewHost(InitialValues) EXCEPT
                 !.access = AdjointInterfaceImplBase(adjointVector, vecDim),
                 !.atSet = [index |-> 1,
                            access |-> AdjointInterfaceImplBase(adjointVector, vecDim)]]
  /\ last = [op |-> "none", pre |-> [tape |-> PrimalValueBaseTape,
                                     vals |-> InitialValues,
                                     helper |-> PreaccumulationHelper]]
  /\ err = "none"

NextInterface ==
  /\ host.calls < MaxAccessCalls
  /\ \/ \E index \in Indexes : SetLhsAdjoint(index)
     \/ \E index \in Indexes : ResetAdjointVec(index)
     \/ \E index \in Indexes, dim \in 1..getVectorSize(host.access) :
          ResetAdjoint(index, dim)
     \/ \E index \in Indexes, dim \in 1..getVectorSize(host.access) :
          UpdateAdjoint(index, dim, 1)
     \/ \E index \in Indexes, jacobi \in Jacobies :
          UpdateJacobiAdjoint(index, jacobi)

SpecInterface == InitInterface /\ [][NextInterface]_vars

\* every entry of the adjoint vector but the one at index is as before the call
OtherAdjointsKept(index) ==
  \A i \in Indexes \ {index} :
    host.access.adjointVector[i] = last.apre.adjointVector[i]

\* the adjoint the last setLhsAdjoint stored; zero before the first
StoredLhs ==
  IF \E k \in 1..Len(host.ops) : host.ops[k] = "setLhsAdjoint"
    THEN host.atSet.access.adjointVector[host.atSet.index]
    ELSE GradientValue(getVectorSize(host.access))

\* the last three calls were setLhsAdjoint(w); resetAdjointVec(w);
\* updateJacobiAdjoint(x, jac) with x different from w
ProtocolSequence ==
  /\ last.op = "updateJacobiAdjoint"
  /\ last.before.op = "resetAdjointVec"
  /\ last.before.before.op = "setLhsAdjoint"
  /\ last.before.index = last.before.before.index
  /\ last.index # last.before.index

\* C24: setLhsAdjoint(w) copies adjoint[w] into the stored lhs and changes no
\* adjoint entry; updateJacobiAdjoint(x, jac) adds jac times the adjoint that
\* the last setLhsAdjoint stored, whatever was done to adjoint[w] since; after
\* setLhsAdjoint(w); resetAdjointVec(w); updateJacobiAdjoint(x, jac) with x
\* different from w, adjoint[x] is its old value plus jac times the old
\* adjoint[w] and adjoint[w] is zero; in every component.
C24_LhsAdjointProtocol ==
  /\ last.op = "setLhsAdjoint" =>
       /\ host.access.lhs = last.apre.adjointVector[last.index]
       /\ host.access.adjointVector = last.apre.adjointVector
  /\ last.op = "updateJacobiAdjoint" =>
       /\ \A d \in 1..getVectorSize(host.access) :
            host.access.adjointVector[last.index][d] =
              last.apre.adjointVector[last.index][d] + last.jacobi * StoredLhs[d]
       /\ OtherAdjointsKept(last.index)
  /\ ProtocolSequence =>
       \A d \in 1..getVectorSize(host.access) :
         /\ host.access.adjointVector[last.before.index][d] = 0
         /\ host.access.adjointVector[last.index][d] =
              last.before.before.apre.adjointVector[last.index][d]
                + last.jacobi * last.before.before.apre.adjointVector[last.before.index][d]

\* the sequence on adjoints with two components, the adjoint of w not zero in
\* either
C24_Witness ==
  /\ ProtocolSequence
  /\ getVectorSize(host.access) = 2
  /\ \A d \in 1..2 : last.before.before.apre.adjointVector[last.before.index][d] # 0
  /\ host.access.adjointVector[last.index] # last.apre.adjointVector[last.index]

----------------------------------------------------------------------------
(* The wrapper for std::complex.  The host program builds the wrapper on an *)
(* accessor with an adjoint vector of MaxIndex entries and makes up to      *)
(* MaxWrapperCalls calls in any order.  A complex identifier may have the   *)
(* same identifier in both parts.                                           *)

MaxWrapperCalls == 2

ComplexIndexes == {Complex(1, 2), Complex(2, 3), Complex(MaxIndex, MaxIndex)}

ComplexJacobies == {Complex(2, 1), Complex(0, -1)}

InitWrapper ==
  /\ cfg = DefaultConfig(TRUE)
  /\ tape = PrimalValueBaseTape
  /\ vals = InitialValues
  /\ helper = PreaccumulationHelper
  /\ \E vecDim \in VecDims : \E adjointVector \in AdjointVectors(vecDim) :
       host = [NewHost(InitialValues) EXCEPT
                 !.wrapper = AggregatedTypeVectorAccessWrapperBase(
                               VectorAccessInterface(adjointVector,
                                                     Indices(MaxIndex), vecDim))]
  /\ last = [op |-> "none", pre |-> [tape |-> PrimalValueBaseTape,
                                     vals |-> InitialValues,
                                     helper |-> PreaccumulationHelper]]
  /\ err = "none"

WrapperDims == 1..getVectorSize(host.wrapper.innerInterface)

NextWrapper ==
  /\ host.calls < MaxWrapperCalls
  /\ \/ \E index \in ComplexIndexes : WrapperSetLhsAdjointCall(index)
     \/ \E index \in ComplexIndexes, jacobi \in ComplexJacobies :
          UpdateAdjointWithLhs(index, jacobi)
     \/ \E index \in ComplexIndexes, jacobi \in ComplexJacobies :
          UpdateTangentWithLhs(index, jacobi)
     \/ \E index \in ComplexIndexes : SetLhsTangent(index)
     \/ IsLhsZero
     \/ \E index \in ComplexIndexes, dim \in WrapperDims :
          DirectUpdateAdjoint(index, dim, Complex(1, 2))
     \/ \E index \in ComplexIndexes, dim \in {0} \cup WrapperDims :
          DirectResetAdjoint(index, dim)
     \/ \E index \in ComplexIndexes, dim \in WrapperDims :
          DirectGetAdjoint(index, dim)
     \/ \E index \in ComplexIndexes : DirectSetPrimal(index, Complex(5, 7))
     \/ \E index \in ComplexIndexes : DirectGetPrimal(index)

SpecWrapper == InitWrapper /\ [][NextWrapper]_vars

\* the adjoint vector of the accessor before and after the last call
AdjointBefore == last.wpre.innerInterface.adjointVector

AdjointAfter == host.wrapper.innerInterface.adjointVector

\* the last call added the real part of update(d) to dimension d of the entry
\* of the real identifier and the imaginary part to that of the imaginary
\* identifier, for the dimensions dims, and changed nothing else
AddedToParts(update(_), dims) ==
  \A i \in Indexes, d \in WrapperDims :
    AdjointAfter[i][d] =
      AdjointBefore[i][d]
        + (IF i = last.index.re /\ d \in dims THEN update(d).re ELSE 0)
        + (IF i = last.index.im /\ d \in dims THEN update(d).im ELSE 0)

\* the last call set the dimensions dims of the entries of both identifiers
\* to zero and changed nothing else
PartsReset(dims) ==
  \A i \in Indexes, d \in WrapperDims :
    AdjointAfter[i][d] =
      IF i \in {last.index.re, last.index.im} /\ d \in dims THEN 0
      ELSE AdjointBefore[i][d]

\* the complex adjoint at the index of the last call, before the call
ComplexAdjointBefore(d) ==
  Complex(AdjointBefore[last.index.re][d], AdjointBefore[last.index.im][d])

LhsUpdate(d) == ComplexTimes(last.argument, last.wpre.lhs[d])

BufferBefore(d) == last.wpre.lhs[d]

DirectUpdate(d) == last.argument.adjoint

\* C25: setLhsAdjoint(index) copies every dimension of the adjoint at index
\* into the buffer and resets that adjoint; updateAdjointWithLhs(j, c) adds
\* c * lhs[d] to dimension d of adjoint j; updateTangentWithLhs(j, c) adds
\* c * tangent[j][d] to lhs[d]; setLhsTangent(index) adds the buffer to the
\* entry at index and leaves the buffer zero; isLhsZero is true exactly when
\* every component of the buffer is zero; every direct operation acts on the
\* real identifier with the real part and on the imaginary identifier with
\* the imaginary part.
C25_IndirectAccess ==
  /\ last.op = "setLhsAdjoint" =>
       /\ \A d \in WrapperDims : host.wrapper.lhs[d] = ComplexAdjointBefore(d)
       /\ PartsReset(WrapperDims)
  /\ last.op = "updateAdjointWithLhs" =>
       /\ AddedToParts(LhsUpdate, WrapperDims)
       /\ host.wrapper.lhs = last.wpre.lhs
  /\ last.op = "updateTangentWithLhs" =>
       /\ \A d \in WrapperDims :
            host.wrapper.lhs[d] =
              ComplexPlus(last.wpre.lhs[d],
                          ComplexTimes(last.argument, ComplexAdjointBefore(d)))
       /\ AdjointAfter = AdjointBefore
  /\ last.op = "setLhsTangent" =>
       /\ AddedToParts(BufferBefore, WrapperDims)
       /\ \A d \in WrapperDims : host.wrapper.lhs[d] = Complex(0, 0)
  /\ last.op = "isLhsZero" =>
       last.argument = (\A d \in WrapperDims :
                          host.wrapper.lhs[d].re = 0 /\ host.wrapper.lhs[d].im = 0)
  /\ last.op = "updateAdjoint" =>
       AddedToParts(DirectUpdate, {last.argument.dim}) /\ host.wrapper.lhs = last.wpre.lhs
  /\ last.op = "resetAdjoint" =>
       /\ PartsReset(IF last.argument.dim = 0 THEN WrapperDims ELSE {last.argument.dim})
       /\ host.wrapper.lhs = last.wpre.lhs
  /\ last.op = "getAdjoint" =>
       last.argument.ret = ComplexAdjointBefore(last.argument.dim)
  /\ last.op = "setPrimal" =>
       /\ \A i \in Indexes :
            host.wrapper.innerInterface.primalVector[i] =
              IF i = last.index.im THEN last.argument.im
              ELSE IF i = last.index.re THEN last.argument.re
              ELSE last.wpre.innerInterface.primalVector[i]
       /\ AdjointAfter = AdjointBefore
  /\ last.op = "getPrimal" =>
       last.argument = Complex(last.wpre.innerInterface.primalVector[last.index.re],
                               last.wpre.innerInterface.primalVector[last.index.im])

\* an update with a buffer that is not zero in either part of either of two
\* dimensions, on an identifier with different parts
C25_Witness ==
  /\ last.op = "updateAdjointWithLhs"
  /\ Len(last.wpre.lhs) = 2
  /\ \A d \in 1..2 : last.wpre.lhs[d].re # 0 /\ last.wpre.lhs[d].im # 0
  /\ last.index.re # last.index.im
  /\ AdjointAfter # AdjointBefore

----------------------------------------------------------------------------
(* The lists of the helper: the host program registers inputs, seeds         *)
(* adjoints, switches the tape passive and active, and calls start,          *)
(* addInput, addOutput and finish in any order, with argument lists that     *)
(* hold passive values and the same value more than once.                    *)

\* calls of the host program in one run
MaxListCalls == 5

\* the argument lists of start and addInput
DeclaredInputs == {<<1, 2>>, <<1, 1>>, <<2, 3, 2>>}

\* the argument lists of addOutput and finish
DeclaredOutputs == {<<>>, <<3>>, <<2, 3>>}

\* the adjoint values the host program seeds
Seeds == {1, 2}

NextLists ==
  /\ host.calls < MaxListCalls
  /\ \/ \E v \in Vars :
          /\ vals[v].id = 0 /\ v < NumVars
          /\ \A w \in Vars : (w < v) => (vals[w].id # 0)
          /\ RegisterInput(v)
     \/ \E v \in Vars, value \in Seeds :
          /\ vals[v].id # 0 /\ gradient(tape, vals[v].id) = 0
          /\ SetGradient(v, value)
     \/ tape.active /\ SetPassive
     \/ ~tape.active /\ SetActive
     \/ \E inputs \in DeclaredInputs : Start(inputs)
     \/ \E inputs \in DeclaredInputs : AddInput(inputs)
     \/ \E outputs \in DeclaredOutputs : outputs # <<>> /\ AddOutput(outputs)
     \/ \E lhs \in Vars \ {1}, terms \in Exprs :
          /\ host.region = "open" /\ host.stores < MaxStmts
          /\ Store(lhs, terms)
     \/ \E storeAdjoints \in BOOLEAN, outputs \in DeclaredOutputs :
          /\ host.region = "open"
          /\ Finish(storeAdjoints, outputs)

SpecLists == Init /\ [][NextLists]_vars

\* C26: after every sequence of start, addInput, addOutput and finish calls
\* outputData and outputValues have the same length, outputData[i] is the
\* identifier the value outputValues[i] had when it was added, no list holds
\* the identifier 0, and a call adds to inputData exactly the nonzero
\* identifiers of its arguments, in their order.
C26_ListsInSync ==
  /\ Len(helper.outputData) = Len(helper.outputValues)
  /\ helper.outputData = host.added
  /\ \A i \in 1..Len(helper.outputData) : helper.outputData[i] # 0
  /\ \A i \in 1..Len(helper.inputData) : helper.inputData[i] # 0
  /\ (last.op \in {"start", "addInput"} /\ last.pre.tape.active) =>
       helper.inputData
         = (IF last.op = "start" THEN <<>> ELSE last.pre.helper.inputData)
             \o ActiveIdentifiers(last.pre.vals, last.inputs)
  /\ (last.op = "addOutput" /\ last.pre.tape.active) =>
       /\ helper.outputData
            = last.pre.helper.outputData
                \o ActiveIdentifiers(last.pre.vals, last.outputs)
       /\ helper.outputValues
            = last.pre.helper.outputValues
                \o SelectSeq(last.outputs, LAMBDA v : last.pre.vals[v].id # 0)
  /\ (last.op \in {"start", "addInput", "addOutput", "finish"}
        /\ ~last.pre.tape.active) => helper = last.pre.helper

\* C26 witness: addOutput of an active and a passive value has added the
\* active one only, and after a later assignment that value has another
\* identifier than the one outputData holds for it
C26_Witness ==
  /\ last.op = "store" /\ last.lhs = 2
  /\ host.ops[Len(host.ops) - 1] = "addOutput"
  /\ helper.outputValues = <<2>>
  /\ vals[3].id = 0
  /\ helper.outputData[1] # 0
  /\ vals[2].id # helper.outputData[1]

\* finish(true, ...) has returned on an active tape
FinishedStoring ==
  last.op = "finish" /\ last.storeAdjoints /\ last.pre.tape.active /\ err = "none"

\* the adjoint of declared input i is zero while the Jacobian is computed
\* and has after finish the value it had before finish
InputAdjointKept(i) ==
  /\ gradient(last.atJacobian, helper.inputData[i]) = 0
  /\ gradient(tape, helper.inputData[i])
       = gradient(last.pre.tape, helper.inputData[i])

Distinct(list) ==
  \A i \in 1..Len(list), j \in 1..Len(list) : list[i] = list[j] => i = j

\* finish(true, ...) keeps the adjoints of the inputs when every identifier
\* is declared once
DistinctInputAdjointsKept ==
  (FinishedStoring /\ Distinct(helper.inputData)) =>
    \A i \in 1..Len(helper.inputData) : InputAdjointKept(i)

\* the adjoints of the declared inputs are zero while the Jacobian is
\* computed, whatever the list of inputs
InputAdjointsZeroAtJacobian ==
  FinishedStoring =>
    \A i \in 1..Len(helper.inputData) :
      gradient(last.atJacobian, helper.inputData[i]) = 0

\* C30: finish(storeAdjoints = true) preserves the adjoints of the inputs: for
\* every list of declared inputs, also one that declares an identifier more
\* than once, the adjoint of every declared input is zero while the Jacobian
\* is computed and after finish equals the value it had before finish.
C30_InputAdjointsPreserved ==
  FinishedStoring => \A i \in 1..Len(helper.inputData) : InputAdjointKept(i)

----------------------------------------------------------------------------
(* The helper on an inactive tape and on a forward tape.  The host program  *)
(* registers x1, assigns once, switches the tape passive and active and     *)
(* calls start, addInput, addOutput and finish in any order; or it seeds a  *)
(* value of the forward mode tape and calls the helper of that tape.        *)

\* calls of the host program in one run
MaxInactiveCalls == 6

\* calls on the forward mode tape in one run
MaxNoOpCalls == 2

\* the argument lists of start and addInput
InactiveInputs == {<<1, 2>>, <<1, 1>>}

\* the argument lists of addOutput and finish
InactiveOutputs == {<<2>>, <<1, 3>>}

NextInactive ==
  \/ /\ host.calls = 0 /\ host.fcalls = 0
     /\ RegisterInput(1)
  \/ \E terms \in Exprs :
       /\ host.calls \in 1..(MaxInactiveCalls - 1) /\ host.stores < 1
       /\ Store(2, terms)
  \/ host.calls \in 1..(MaxInactiveCalls - 1) /\ tape.active /\ SetPassive
  \/ host.calls \in 1..(MaxInactiveCalls - 1) /\ ~tape.active /\ SetActive
  \/ \E inputs \in InactiveInputs :
       host.calls \in 1..(MaxInactiveCalls - 1) /\ Start(inputs)
  \/ \E inputs \in InactiveInputs :
       host.calls \in 1..(MaxInactiveCalls - 1) /\ AddInput(inputs)
  \/ \E outputs \in InactiveOutputs :
       host.calls \in 1..(MaxInactiveCalls - 1) /\ AddOutput(outputs)
  \/ \E storeAdjoints \in BOOLEAN, outputs \in InactiveOutputs :
       /\ host.calls \in 1..(MaxInactiveCalls - 1) /\ host.region = "open"
       /\ Finish(storeAdjoints, outputs)
  \/ \E v \in Vars :
       /\ host.calls = 0 /\ host.fcalls = 0
       /\ SetForwardGradient(v, 1)
  \/ \E inputs \in InactiveInputs :
       /\ host.calls = 0 /\ host.fcalls \in 1..MaxNoOpCalls
       /\ NoOpCalled("noOpStart", NoOpStart(host.fvals, inputs))
  \/ \E inputs \in InactiveInputs :
       /\ host.calls = 0 /\ host.fcalls \in 1..MaxNoOpCalls
       /\ NoOpCalled("noOpAddInput", NoOpAddInput(host.fvals, inputs))
  \/ \E outputs \in InactiveOutputs :
       /\ host.calls = 0 /\ host.fcalls \in 1..MaxNoOpCalls
       /\ NoOpCalled("noOpAddOutput", NoOpAddOutput(host.fvals, outputs))
  \/ \E storeAdjoints \in BOOLEAN, outputs \in InactiveOutputs :
       /\ host.calls = 0 /\ host.fcalls \in 1..MaxNoOpCalls
       /\ NoOpCalled("noOpFinish", NoOpFinish(host.fvals, storeAdjoints, outputs))

SpecInactive == Init /\ [][NextInactive]_vars

HelperCalls == {"start", "addInput", "addOutput", "finish"}

NoOpCalls == {"noOpStart", "noOpAddInput", "noOpAddOutput", "noOpFinish"}

\* sequence p is the beginning of sequence q
IsPrefix(p, q) == Len(p) <= Len(q) /\ SubSeq(q, 1, Len(p)) = p

\* C32: while the tape is not active, start, addInput, addOutput and finish
\* change neither the lists and the start position of the helper nor the
\* tape; the helper holds at every moment the start position and the inputs
\* of the last start that ran on an active tape, which a later finish on an
\* active tape works with; the four operations of the helper of a forward
\* tape change nothing.
C32_InactiveTapeFrame ==
  /\ (last.op \in HelperCalls /\ ~last.pre.tape.active) =>
       /\ helper = last.pre.helper
       /\ tape = last.pre.tape
       /\ vals = last.pre.vals
       /\ err = "none"
  /\ helper.startPos = host.started.startPos
  /\ IsPrefix(host.started.inputData, helper.inputData)
  /\ (last.op = "finish" /\ last.pre.tape.active /\ err = "none") =>
       /\ last.computed.n = Len(helper.inputData)
       /\ Len(tape.stmts) = host.started.startPos.stmt + ManualCalls
  /\ last.op \in NoOpCalls =>
       /\ host.fvals = last.fpre
       /\ tape = last.pre.tape /\ helper = last.pre.helper /\ vals = last.pre.vals

\* C32 witness: a start on the inactive tape after a start on the active
\* tape and an assignment, then a finish on the active tape
C32_Witness ==
  /\ last.op = "finish" /\ last.pre.tape.active /\ err = "none"
  /\ \E k \in 1..Len(host.ops) :
       /\ host.ops[k] = "start"
       /\ \E j \in 1..(k - 1) :
            /\ host.ops[j] = "setPassive"
            /\ \A i \in j..k : host.ops[i] # "setActive"
  /\ helper.startPos.stmt > 0 \/ helper.startPos.idx > MaxArgumentSize
  /\ helper.inputData # <<>>

----------------------------------------------------------------------------
(* Sizes of the adjoint vector.  The host program registers inputs, stores  *)
(* an assignment, seeds adjoints, deletes the adjoint vector, sets its size *)
(* through setParameter, replays the tape with the four evaluate calls      *)
(* that use the adjoint vector of the tape, and reads adjoints through the  *)
(* const accessor, up to MaxSizeCalls calls.                                *)

deleteAdjointVector(t) ==
  [t EXCEPT !.adjointSize = 1, !.adjoints = VectorResize(@, 1)]

\* the const accessor: the element it reads, whether the element is inside
\* the vector, and the entry
gradientConst(t, identifier) ==
  LET read(element) == [ index |-> element, inside |-> element < t.adjointSize,
                         value |-> Get(t.adjoints, element) ]
  IN  IF identifier > t.adjointSize THEN read(0) ELSE read(identifier)

\* tape.deleteAdjointVector()
DeleteAdjointVector ==
  /\ err = "none"
  /\ tape' = deleteAdjointVector(tape)
  /\ host' = Called("deleteAdjointVector")
  /\ last' = [op |-> "deleteAdjointVector", pre |-> Before]
  /\ UNCHANGED <<cfg, vals, helper, err>>

\* tape.evaluateForwardKeepState(from, to)
EvaluateForwardKeepState(from, to) ==
  /\ err = "none"
  /\ \E outcome \in Outcomes :
       Replayed("evaluateForwardKeepState", from, to,
                evaluateForwardKeepState(tape, from, to, outcome))

\* what a read outside the vector may find
StaleValues == {0, 1}

\* the const accessor called on the tape; a read outside the vector is
\* undefined behaviour
GradientConst(identifier) ==
  /\ err = "none"
  /\ \E outcome \in Outcomes, stale \in StaleValues :
       LET read(g) ==
             /\ last' = [op |-> "gradient", identifier |-> identifier,
                         index |-> g.index,
                         ret |-> IF g.inside THEN g.value ELSE stale,
                         pre |-> Before]
             /\ err' = IF ~g.inside /\ outcome = "crash"
                         THEN "undefined behaviour" ELSE "none"
       IN  read(gradientConst(tape, identifier))
  /\ host' = Called("gradient")
  /\ UNCHANGED <<cfg, tape, vals, helper>>

MaxSizeCalls == 5

\* a size below every identifier and one among the identifiers
SizeValues == {0, MaxArgumentSize + 2}

\* the identifiers the const accessor is called with: 0, those of the
\* values, the size of the adjoint vector and its neighbours
ReadIdentifiers ==
  {0} \cup {vals[v].id : v \in Vars}
      \cup {i \in (tape.adjointSize - 1)..(tape.adjointSize + 1) : i >= 0}

NextSizes ==
  /\ host.calls < MaxSizeCalls
  /\ \/ \E v \in Vars :
          /\ \A w \in Vars : (w < v) => vals[w].id # 0
          /\ v < NumVars /\ vals[v].id = 0
          /\ RegisterInput(v)
     \/ \E terms \in Exprs : host.stores < 1 /\ Store(NumVars, terms)
     \/ \E v \in Vars : vals[v].id # 0 /\ SetGradient(v, 1)
     \/ DeleteAdjointVector
     \/ \E value \in SizeValues : SetParameter("AdjointSize", value)
     \/ Evaluate(ZeroPosition)
     \/ EvaluateForward(ZeroPosition)
     \/ EvaluateKeepState(getPosition(tape), ZeroPosition)
     \/ EvaluateForwardKeepState(ZeroPosition, getPosition(tape))
     \/ \E identifier \in ReadIdentifiers : GradientConst(identifier)

SpecSizes == Init /\ [][NextSizes]_vars

\* the evaluate calls that use the adjoint vector of the tape
AdjointReplays ==
  {"evaluate", "evaluateForward", "evaluateKeepState", "evaluateForwardKeepState"}

\* C34: when evaluate, evaluateForward, evaluateKeepState or
\* evaluateForwardKeepState starts the replay on the adjoint vector of the
\* tape, the vector has more entries than the largest assigned identifier,
\* whatever recording, deleteAdjointVector and setParameter(AdjointSize, v)
\* calls came before; a vector that is large enough keeps its size.
C34_ReplayAfterResize ==
  last.op \in AdjointReplays =>
    LET largest == getLargestAssignedIndex(last.pre.tape)
    IN  /\ tape.adjointSize > largest
        /\ tape.adjointSize = IF last.pre.tape.adjointSize > largest
                                THEN last.pre.tape.adjointSize
                                ELSE largest + 1
        /\ \A k \in 1..Len(tape.stmts) : tape.stmts[k].lhs < tape.adjointSize

\* C34 witness: a replay of a recorded statement after the adjoint vector
\* was deleted or cut by setParameter
C34_Witness ==
  /\ last.op \in AdjointReplays /\ err = "none"
  /\ Len(tape.stmts) > 0 /\ last.visits # <<>>
  /\ last.pre.tape.adjointSize <= 1
  /\ \E k \in 1..Len(host.ops) :
       host.ops[k] \in {"deleteAdjointVector", "setParameter"}

\* C37: for every identifier and every size of the adjoint vector reached
\* by construction, recording, deleteAdjointVector and
\* setParameter(AdjointSize, v), the const accessor reads an element inside
\* the vector, and entry 0 for every identifier outside the vector.
C37_ConstGradientInBounds ==
  last.op = "gradient" =>
    /\ last.index < tape.adjointSize
    /\ last.identifier >= tape.adjointSize => last.index = 0
    /\ last.ret = Get(tape.adjoints, last.index)

====
